---------------------------- MODULE Spec2Model ----------------------------
(***************************************************************************)
(* Model of the qPCR methylation report generator's core:                  *)
(*   data_parser.safe_float_convert   (Cq value normalizer)                *)
(*   data_parser.parse_qpcr_csv       (export parser)                      *)
(*   data_parser.extract_sample_data,                                      *)
(*   data_parser.get_all_samples      (sample aggregator)                  *)
(* of the call report_generator.generate_report_win32 makes to the         *)
(* aggregator, and of report_generator.populate_stepone_data_win32,        *)
(* populate_hct116_controls_win32 and populate_controls_win32 (projection  *)
(* of the measurements into the 'StepOne Data' worksheet).                 *)
(*                                                                         *)
(* A Python str is modelled as a sequence of one-character strings, so     *)
(* that strip, upper, startswith, float() and the csv reader are computed  *)
(* character by character.  A Python dict is a sequence of key/value       *)
(* pairs in insertion order.                                               *)
(***************************************************************************)
EXTENDS Integers, Sequences, FiniteSets, TLC

VARIABLES
    npc,          \* normalizer: "idle" | "running" | "returned"
    cq_value,     \* the argument of the running / last safe_float_convert call
    cq_out,       \* what the last safe_float_convert call produced
    ppc,          \* parser: "idle" | "running" | "returned"
    file_path,    \* the path given to parse_qpcr_csv
    lines,        \* the lines of that file (f.readlines(), terminators left out)
    parse_out,    \* what the last parse_qpcr_csv call produced
    parse_refs,   \* the objects of the result: the list, then its rows
    allocated,    \* how many objects the parser has made so far
    kept,         \* the results of earlier parser calls the caller holds
    apc,          \* aggregator: "idle" | "running" | "returned"
    icr1_data,    \* first row list handed to the aggregator
    icr2_data,    \* second row list handed to the aggregator
    call,         \* the aggregator call in progress / last made
    agg_out,      \* what the last aggregator call produced
    agg_lists,    \* the four list objects of the record agg_out holds
    objects,      \* how many list objects the aggregator has made so far
    held,         \* the results of earlier calls the caller still holds
    wpc,          \* worksheet writer: "idle" | "running" | "returned"
    template,     \* the 'StepOne Data' sheet as the template file has it
    ws,           \* the 'StepOne Data' sheet of the workbook being filled
    wcall,        \* the populate_* call in progress / last made
    write_out,    \* what the last populate_* call produced
    rpc,          \* report runs: "idle" | "running" | "returned"
    rcall,        \* the call of extract_plate_info, generate_report_win32 or
                  \* main in progress / last made
    disk,         \* what the program has done to files and to Excel
    report_out    \* what that call produced

vars == <<npc, cq_value, cq_out, ppc, file_path, lines, parse_out,
          parse_refs, allocated, kept,
          apc, icr1_data, icr2_data, call, agg_out, agg_lists, objects, held,
          wpc, template, ws, wcall, write_out,
          rpc, rcall, disk, report_out>>

normVars  == <<npc, cq_value, cq_out>>
parseVars == <<ppc, file_path, lines, parse_out, parse_refs, allocated, kept>>
aggVars   == <<apc, icr1_data, icr2_data, call, agg_out,
               agg_lists, objects, held>>
writeVars == <<wpc, template, ws, wcall, write_out>>
reportVars == <<rpc, rcall, disk, report_out>>

\* The worksheet writer is not in a call.
WriteAtRest == wpc = "idle"

\* No report run is in progress.
ReportAtRest == rpc = "idle"

-----------------------------------------------------------------------------
(* Python values *)

\* Python's None
None == [kind |-> "None"]

\* A Python str with the characters s
Str(s) == [kind |-> "str", chars |-> s]

\* A Python list with the items xs
List(xs) == [kind |-> "list", items |-> xs]

\* A finite Python float, held exactly as m * 10^e, where m is no multiple
\* of 10 (and the float 0.0 is Float(0, 0)).
Float(m, e) == [kind |-> "float", m |-> m, e |-> e]

\* float('inf') / float('-inf') and float('nan')
FloatInf(neg) == [kind |-> "inf", neg |-> neg]
FloatNaN == [kind |-> "nan"]

\* The outcome of a call: a returned value, or a raised exception.
Returned(v) == [exc |-> "none", value |-> v]
Raised(type, info) == [exc |-> type, info |-> info]

\* What an exception carries: its message and, where the message embeds one,
\* the path of the file.
Info(message, path) == [message |-> message, path |-> path]
NoPath == "-"

-----------------------------------------------------------------------------
(* str operations *)

LowerLetters == <<"a","b","c","d","e","f","g","h","i","j","k","l","m",
                  "n","o","p","q","r","s","t","u","v","w","x","y","z">>
UpperLetters == <<"A","B","C","D","E","F","G","H","I","J","K","L","M",
                  "N","O","P","Q","R","S","T","U","V","W","X","Y","Z">>
DigitChars == <<"0","1","2","3","4","5","6","7","8","9">>

Range(f) == {f[i] : i \in DOMAIN f}

IsDigit(c) == c \in Range(DigitChars)
DigitVal(c) == (CHOOSE i \in DOMAIN DigitChars : DigitChars[i] = c) - 1

\* The characters str.strip() with no argument removes (ASCII part).
Whitespace == {" ", "\t", "\n", "\r"}

\* str.upper() on one character
UpperChar(c) ==
    IF c \in Range(LowerLetters)
    THEN UpperLetters[CHOOSE i \in DOMAIN LowerLetters : LowerLetters[i] = c]
    ELSE c

\* str.lower() on one character
LowerChar(c) ==
    IF c \in Range(UpperLetters)
    THEN LowerLetters[CHOOSE i \in DOMAIN UpperLetters : UpperLetters[i] = c]
    ELSE c

\* str.upper()
Upper(s) == [i \in DOMAIN s |-> UpperChar(s[i])]

\* str.lower()
Lower(s) == [i \in DOMAIN s |-> LowerChar(s[i])]

RECURSIVE LStrip(_, _)
LStrip(s, chars) ==
    IF s # <<>> /\ Head(s) \in chars THEN LStrip(Tail(s), chars) ELSE s

RECURSIVE RStrip(_, _)
RStrip(s, chars) ==
    IF s # <<>> /\ s[Len(s)] \in chars
    THEN RStrip(SubSeq(s, 1, Len(s) - 1), chars)
    ELSE s

\* str.strip(chars); str.strip() is Strip(s, Whitespace)
Strip(s, chars) == RStrip(LStrip(s, chars), chars)

\* str.startswith(prefix)
StartsWith(s, prefix) ==
    /\ Len(s) >= Len(prefix)
    /\ SubSeq(s, 1, Len(prefix)) = prefix

\* The suffix of s from position i (1-based) on: s[i-1:]
From(s, i) == SubSeq(s, i, Len(s))

-----------------------------------------------------------------------------
(* float(str), as CPython computes it *)

\* Underscores are accepted only between two digits; they are then dropped.
RECURSIVE UnderscoreScan(_, _, _)
UnderscoreScan(s, prev, acc) ==
    IF s = <<>>
    THEN IF prev = "_" THEN [ok |-> FALSE, str |-> <<>>]
                       ELSE [ok |-> TRUE, str |-> acc]
    ELSE LET c == Head(s) IN
         IF c = "_"
         THEN IF IsDigit(prev)
              THEN UnderscoreScan(Tail(s), c, acc)
              ELSE [ok |-> FALSE, str |-> <<>>]
         ELSE IF prev = "_" /\ ~IsDigit(c)
              THEN [ok |-> FALSE, str |-> <<>>]
              ELSE UnderscoreScan(Tail(s), c, acc \o <<c>>)

RECURSIVE DigitPrefixLen(_)
DigitPrefixLen(s) ==
    IF s # <<>> /\ IsDigit(Head(s)) THEN 1 + DigitPrefixLen(Tail(s)) ELSE 0

RECURSIVE DigitsValue(_, _)
DigitsValue(s, acc) ==
    IF s = <<>> THEN acc
    ELSE DigitsValue(Tail(s), 10 * acc + DigitVal(Head(s)))

\* The float m * 10^e, with the trailing zeros of m moved into e.
RECURSIVE Canonical(_, _)
Canonical(m, e) ==
    IF m = 0 THEN Float(0, 0)
    ELSE IF m % 10 = 0 THEN Canonical(m \div 10, e + 1)
    ELSE Float(m, e)

\* The words float() accepts besides decimal numerals (any letter case).
InfWords == { <<"i","n","f">>, <<"i","n","f","i","n","i","t","y">> }
NanWord == <<"n","a","n">>

\* The float with the decimal digits `digits` scaled by 10^exp10.
MakeFloat(digits, exp10) == Canonical(DigitsValue(digits, 0), exp10)

NotANumber == [ok |-> FALSE]
Number(f) == [ok |-> TRUE, value |-> f]

\* The digits of the exponent: at least one, and nothing after them.
ParseExpDigits(ip, fp, eNeg, r) ==
    IF r = <<>> \/ DigitPrefixLen(r) # Len(r) THEN NotANumber
    ELSE Number(MakeFloat(ip \o fp,
                          (IF eNeg THEN -DigitsValue(r, 0) ELSE DigitsValue(r, 0))
                          - Len(fp)))

\* After 'e' or 'E': an optional sign, then the digits.
ParseExpSign(ip, fp, r) ==
    IF r # <<>> /\ Head(r) \in {"+", "-"}
    THEN ParseExpDigits(ip, fp, Head(r) = "-", Tail(r))
    ELSE ParseExpDigits(ip, fp, FALSE, r)

\* After the integer and the fraction digits (one of the two is not empty):
\* the end, or an exponent.
ParseExp(ip, fp, r) ==
    IF ip = <<>> /\ fp = <<>> THEN NotANumber
    ELSE IF r = <<>> THEN Number(MakeFloat(ip \o fp, -Len(fp)))
    ELSE IF Head(r) \in {"e", "E"} THEN ParseExpSign(ip, fp, Tail(r))
    ELSE NotANumber

\* After the integer digits: an optional '.' and fraction digits.
ParseFraction(ip, r) ==
    IF r # <<>> /\ Head(r) = "."
    THEN ParseExp(ip, SubSeq(Tail(r), 1, DigitPrefixLen(Tail(r))),
                  From(Tail(r), DigitPrefixLen(Tail(r)) + 1))
    ELSE ParseExp(ip, <<>>, r)

\* An unsigned numeral: digits [. digits] [(e|E) [sign] digits], all of it used.
ParseUnsigned(s) ==
    ParseFraction(SubSeq(s, 1, DigitPrefixLen(s)), From(s, DigitPrefixLen(s) + 1))

NotAFloat == Raised("ValueError", Info("could not convert string to float", NoPath))

Negated(f) == Float(-f.m, f.e)

\* After the sign: inf, infinity, nan (any letter case) or a numeral.
FloatOfBody(neg, body) ==
    IF Lower(body) \in InfWords THEN Returned(FloatInf(neg))
    ELSE IF Lower(body) = NanWord THEN Returned(FloatNaN)
    ELSE IF ~ParseUnsigned(body).ok THEN NotAFloat
    ELSE IF neg THEN Returned(Negated(ParseUnsigned(body).value))
    ELSE Returned(ParseUnsigned(body).value)

FloatOfSigned(d) ==
    IF d # <<>> /\ Head(d) \in {"+", "-"}
    THEN FloatOfBody(Head(d) = "-", Tail(d))
    ELSE FloatOfBody(FALSE, d)

FloatOfStripped(t) ==
    IF ~UnderscoreScan(t, "", <<>>).ok THEN NotAFloat
    ELSE FloatOfSigned(UnderscoreScan(t, "", <<>>).str)

\* float(s): Returned(a float) or Raised("ValueError", ...)
PyFloat(s) == FloatOfStripped(Strip(s, Whitespace))

-----------------------------------------------------------------------------
(* data_parser.safe_float_convert *)

UNDETERMINED == <<"U","N","D","E","T","E","R","M","I","N","E","D">>

\* The ceiling returned for 'Undetermined': the float 40.0
CeilingCq == 40

\* safe_float_convert without its "except ValueError" clause.
safe_float_convert_NoCatch(v) ==
    IF v = None \/ v = Str(<<>>) THEN Returned(None)
    ELSE IF Upper(Strip(v.chars, Whitespace)) = UNDETERMINED
         THEN Returned(Canonical(CeilingCq, 0))
    ELSE PyFloat(v.chars)

\* safe_float_convert comparing with 'Undetermined' as spelled, without upper().
safe_float_convert_CaseSensitive(v) ==
    IF v = None \/ v = Str(<<>>) THEN Returned(None)
    ELSE IF Strip(v.chars, Whitespace)
              = <<"U","n","d","e","t","e","r","m","i","n","e","d">>
         THEN Returned(Canonical(CeilingCq, 0))
    ELSE IF PyFloat(v.chars).exc = "ValueError" THEN Returned(None)
    ELSE PyFloat(v.chars)

\* v is the argument: a str, or None ("not cq_value" holds of both None and '').
safe_float_convert(v) ==
    IF v = None \/ v = Str(<<>>) THEN Returned(None)
    ELSE IF Upper(Strip(v.chars, Whitespace)) = UNDETERMINED
         THEN Returned(Canonical(CeilingCq, 0))
    ELSE IF PyFloat(v.chars).exc = "ValueError" THEN Returned(None)
    ELSE PyFloat(v.chars)

-----------------------------------------------------------------------------
(* The normalizer as a state machine: any caller may call it, any number   *)
(* of times, with any cell string.                                         *)

\* How many pieces a generated cell string is made of at most.
MaxCqPieces == 3

\* The pieces cell strings are made of.
CqPieces ==
    { <<" ">>, <<"\t">>, <<"2">>, <<"0">>, <<".">>, <<"-">>, <<"e">>, <<"_">>,
      <<"a","b","c">>, <<"i","n","f">>, <<"n","a","n">>,
      <<"U","n","d","e","t","e","r","m","i","n","e","d">> }

RECURSIVE Compose(_, _)
Compose(pieces, n) ==
    IF n = 0 THEN { <<>> }
    ELSE LET shorter == Compose(pieces, n - 1)
         IN  shorter \cup { a \o b : a \in shorter, b \in pieces }

\* Every spelling of the token that differs from it in letter case only.
CaseVariants(token) ==
    { [i \in DOMAIN token |->
          IF i \in up THEN UpperChar(token[i]) ELSE LowerChar(token[i])] :
      up \in SUBSET (DOMAIN token) }

CqInputs == Compose(CqPieces, MaxCqPieces) \cup CaseVariants(UNDETERMINED)

Pending == [exc |-> "pending"]

NormIdle ==
    /\ npc = "idle"
    /\ cq_value = Str(<<>>)
    /\ cq_out = Pending

\* A caller passes a cell string to safe_float_convert.
NormCall ==
    /\ npc = "idle"
    /\ ppc = "idle" /\ apc \in {"idle", "loaded"} /\ WriteAtRest /\ ReportAtRest
    /\ \E s \in CqInputs : cq_value' = Str(s)
    /\ npc' = "running"
    /\ cq_out' = Pending
    /\ UNCHANGED <<parseVars, aggVars, writeVars, reportVars>>

\* safe_float_convert runs to its return.
NormReturn ==
    /\ npc = "running"
    /\ cq_out' = safe_float_convert(cq_value)
    /\ npc' = "returned"
    /\ UNCHANGED <<cq_value, parseVars, aggVars, writeVars, reportVars>>

\* The caller is done with the result; the normalizer keeps nothing.
NormDone ==
    /\ npc = "returned"
    /\ npc' = "idle"
    /\ cq_value' = Str(<<>>)
    /\ cq_out' = Pending
    /\ UNCHANGED <<parseVars, aggVars, writeVars, reportVars>>

-----------------------------------------------------------------------------
(* csv.reader with the default dialect (delimiter ',', quotechar '"',      *)
(* doublequote, not strict), as the _csv module's state machine.           *)

\* The end-of-line mark the reader feeds itself after the characters of a line.
EOL == "EOL"

CsvStart == [state |-> "START_RECORD", field |-> <<>>, fields |-> <<>>]

\* parse_save_field
SaveField(st) == [st EXCEPT !.fields = Append(@, Str(st.field)), !.field = <<>>]

\* parse_add_char
AddChar(st, c) == [st EXCEPT !.field = Append(@, c)]

AfterLineEnd(c) == IF c = EOL THEN "START_RECORD" ELSE "EAT_CRNL"

StartField(st, c) ==
    IF c \in {"\n", "\r", EOL}
    THEN [SaveField(st) EXCEPT !.state = AfterLineEnd(c)]
    ELSE IF c = "\"" THEN [st EXCEPT !.state = "IN_QUOTED_FIELD"]
    ELSE IF c = "," THEN [SaveField(st) EXCEPT !.state = "START_FIELD"]
    ELSE [AddChar(st, c) EXCEPT !.state = "IN_FIELD"]

\* parse_process_char
ProcessChar(st, c) ==
    CASE st.state = "START_RECORD" ->
            IF c = EOL THEN st
            ELSE IF c \in {"\n", "\r"} THEN [st EXCEPT !.state = "EAT_CRNL"]
            ELSE StartField(st, c)
      [] st.state = "START_FIELD" -> StartField(st, c)
      [] st.state = "IN_FIELD" ->
            IF c \in {"\n", "\r", EOL}
            THEN [SaveField(st) EXCEPT !.state = AfterLineEnd(c)]
            ELSE IF c = "," THEN [SaveField(st) EXCEPT !.state = "START_FIELD"]
            ELSE AddChar(st, c)
      [] st.state = "IN_QUOTED_FIELD" ->
            IF c = EOL THEN st
            ELSE IF c = "\"" THEN [st EXCEPT !.state = "QUOTE_IN_QUOTED_FIELD"]
            ELSE AddChar(st, c)
      [] st.state = "QUOTE_IN_QUOTED_FIELD" ->
            IF c = "\"" THEN [AddChar(st, c) EXCEPT !.state = "IN_QUOTED_FIELD"]
            ELSE IF c = "," THEN [SaveField(st) EXCEPT !.state = "START_FIELD"]
            ELSE IF c \in {"\n", "\r", EOL}
                 THEN [SaveField(st) EXCEPT !.state = AfterLineEnd(c)]
            ELSE [AddChar(st, c) EXCEPT !.state = "IN_FIELD"]
      [] st.state = "EAT_CRNL" ->
            IF c \in {"\n", "\r"} THEN st
            ELSE IF c = EOL THEN [st EXCEPT !.state = "START_RECORD"]
            ELSE [st EXCEPT !.state = "ERROR"]
      [] OTHER -> st

\* The characters are fed one by one; none changes the state "ERROR".
RECURSIVE FeedChars(_, _)
FeedChars(st, s) ==
    IF s = <<>> THEN st
    ELSE LET next == ProcessChar(st, Head(s))
         IN  IF next.state = "ERROR" THEN next ELSE FeedChars(next, Tail(s))

\* One line as readlines() gives it: its characters and the line terminator.
FeedLine(st, line) == ProcessChar(FeedChars(st, line \o <<"\n">>), EOL)

\* Reader.__next__: lines are consumed until a record is complete; at the end
\* of the input an open quoted field is closed and the record returned.
RECURSIVE ReadRecord(_, _)
ReadRecord(st, ls) ==
    IF ls = <<>>
    THEN IF st.field # <<>> \/ st.state = "IN_QUOTED_FIELD"
         THEN [stop |-> FALSE, row |-> SaveField(st).fields, rest |-> <<>>]
         ELSE [stop |-> TRUE, row |-> <<>>, rest |-> <<>>]
    ELSE LET st2 == FeedLine(st, Head(ls)) IN
         IF st2.state = "START_RECORD"
         THEN [stop |-> FALSE, row |-> st2.fields, rest |-> Tail(ls)]
         ELSE ReadRecord(st2, Tail(ls))

\* list(csv.reader(ls))
RECURSIVE CsvReader(_)
CsvReader(ls) ==
    LET r == ReadRecord(CsvStart, ls) IN
    IF r.stop THEN <<>> ELSE <<r.row>> \o CsvReader(r.rest)

-----------------------------------------------------------------------------
(* dict, and csv.DictReader *)

DictKeys(d) == {d[i].key : i \in DOMAIN d}

\* d[k] (the key is there)
DictGet(d, k) == d[CHOOSE i \in DOMAIN d : d[i].key = k].val

\* d[k] = v: a new key goes last, a known key keeps its place.
DictSet(d, k, v) ==
    IF k \in DictKeys(d)
    THEN [i \in DOMAIN d |-> IF d[i].key = k THEN [key |-> k, val |-> v] ELSE d[i]]
    ELSE Append(d, [key |-> k, val |-> v])

\* dict(zip(fieldnames, row))
RECURSIVE DictZip(_, _, _)
DictZip(d, fieldnames, row) ==
    IF fieldnames = <<>> \/ row = <<>> THEN d
    ELSE DictZip(DictSet(d, Head(fieldnames), Head(row)),
                 Tail(fieldnames), Tail(row))

\* d[key] = None for each of the keys
RECURSIVE DictFill(_, _)
DictFill(d, keys) ==
    IF keys = <<>> THEN d
    ELSE DictFill(DictSet(d, Head(keys), None), Tail(keys))

\* DictReader.__next__ on one non-empty row: restkey and restval are None.
DictRow(fieldnames, row) ==
    LET d  == DictZip(<<>>, fieldnames, row)
        lf == Len(fieldnames)
        lr == Len(row)
    IN  IF lf < lr THEN DictSet(d, None, List(From(row, lf + 1)))
        ELSE IF lf > lr THEN DictFill(d, From(fieldnames, lr + 1))
        ELSE d

\* list(csv.DictReader(ls)): the first record names the fields, empty
\* records ([]) are skipped.
DictReader(ls) ==
    LET recs == CsvReader(ls)
        data == SelectSeq(Tail(recs), LAMBDA r : r # <<>>)
    IN  IF recs = <<>> THEN <<>>
        ELSE [i \in DOMAIN data |-> DictRow(Head(recs), data[i])]

-----------------------------------------------------------------------------
(* data_parser.parse_qpcr_csv *)

\* '"Well","Well Position"'
HeaderSignature ==
    <<"\"","W","e","l","l","\"",",",
      "\"","W","e","l","l"," ","P","o","s","i","t","i","o","n","\"">>

\* The index of the first line that starts with the signature; 0 for None.
RECURSIVE FindHeader(_, _)
FindHeader(ls, i) ==
    IF i > Len(ls) THEN 0
    ELSE IF StartsWith(ls[i], HeaderSignature) THEN i
    ELSE FindHeader(ls, i + 1)

\* x.strip('"') of a key or value: only a str has the method.
HasStrip(x) == x.kind = "str"
StripQuotes(x) == Str(Strip(x.chars, {"\""}))

\* {k.strip('"'): v.strip('"') for k, v in row.items()}
RECURSIVE CleanItems(_, _)
CleanItems(d, items) ==
    IF items = <<>> THEN d
    ELSE CleanItems(DictSet(d, StripQuotes(Head(items).key),
                               StripQuotes(Head(items).val)),
                    Tail(items))

CleanRow(row) == CleanItems(<<>>, row)
CleanRaises(row) ==
    \E i \in DOMAIN row : ~HasStrip(row[i].key) \/ ~HasStrip(row[i].val)

\* What parse_qpcr_csv makes of the lines from the header line on.
ParseTable(ls) ==
    IF \E i \in DOMAIN DictReader(ls) : CleanRaises(DictReader(ls)[i])
    THEN Raised("AttributeError",
                Info("'NoneType' object has no attribute 'strip'", NoPath))
    ELSE Returned([i \in DOMAIN DictReader(ls) |-> CleanRow(DictReader(ls)[i])])

\* parse_qpcr_csv reading the table from the first line of the file, with no
\* search for the header.
parse_qpcr_csv_FromTop(path, ls) == ParseTable(ls)

\* parse_qpcr_csv returning an empty list when it finds no header.
parse_qpcr_csv_NoRaise(path, ls) ==
    IF FindHeader(ls, 1) = 0 THEN Returned(<<>>)
    ELSE ParseTable(From(ls, FindHeader(ls, 1)))

\* The objects made as a cache would keep them: the same for every call.
NewObjects_Cached(made, rows) == [i \in 1..(rows + 1) |-> i]

\* "data_rows = []" and one dict per row: each makes a new object; objects
\* are numbered as they are made.
NewObjects(made, rows) == [i \in 1..(rows + 1) |-> made + i]

\* parse_qpcr_csv returning the rows as csv.DictReader gives them.
parse_qpcr_csv_NoStrip(path, ls) ==
    IF FindHeader(ls, 1) = 0
    THEN Raised("ValueError", Info("Could not find header row in", path))
    ELSE Returned(DictReader(From(ls, FindHeader(ls, 1))))

parse_qpcr_csv(path, ls) ==
    IF FindHeader(ls, 1) = 0
    THEN Raised("ValueError", Info("Could not find header row in", path))
    ELSE ParseTable(From(ls, FindHeader(ls, 1)))

-----------------------------------------------------------------------------
(* data_parser.extract_sample_data *)

\* The keys and values the aggregator compares with.
K_Sample == Str(<<"S","a","m","p","l","e">>)
K_Target == Str(<<"T","a","r","g","e","t">>)
K_Cq     == Str(<<"C","q">>)
ICR1_M   == Str(<<"I","C","R","1","_","M">>)
ICR1_UM  == Str(<<"I","C","R","1","_","U","M">>)
ICR2_M   == Str(<<"I","C","R","2","_","M">>)
ICR2_UM  == Str(<<"I","C","R","2","_","U","M">>)

\* row[k]: the value, or KeyError
Subscript(row, k) ==
    IF k \in DictKeys(row) THEN Returned(DictGet(row, k))
    ELSE Raised("KeyError", Info("missing key", NoPath))

\* result[key].append(safe_float_convert(cq)) for the key of the target
AppendCq(result, target, cq, m_target, m_key, um_target, um_key) ==
    IF target = m_target
    THEN [result EXCEPT ![m_key] = Append(@, safe_float_convert(cq).value)]
    ELSE IF target = um_target
    THEN [result EXCEPT ![um_key] = Append(@, safe_float_convert(cq).value)]
    ELSE result

\* One turn of a "for row in data" loop of extract_sample_data: acc is
\* Returned(result) or the exception already raised.
ExtractRow(acc, row, sample_name, m_target, m_key, um_target, um_key) ==
    IF acc.exc # "none" THEN acc
    ELSE IF Subscript(row, K_Sample).exc # "none" THEN Subscript(row, K_Sample)
    ELSE IF Subscript(row, K_Sample).value # sample_name THEN acc
    ELSE IF Subscript(row, K_Target).exc # "none" THEN Subscript(row, K_Target)
    ELSE IF Subscript(row, K_Cq).exc # "none" THEN Subscript(row, K_Cq)
    ELSE Returned(AppendCq(acc.value, Subscript(row, K_Target).value,
                           Subscript(row, K_Cq).value,
                           m_target, m_key, um_target, um_key))

RECURSIVE ExtractLoop(_, _, _, _, _, _, _)
ExtractLoop(acc, data, sample_name, m_target, m_key, um_target, um_key) ==
    IF data = <<>> THEN acc
    ELSE ExtractLoop(
             ExtractRow(acc, Head(data), sample_name,
                        m_target, m_key, um_target, um_key),
             Tail(data), sample_name, m_target, m_key, um_target, um_key)

\* The record the function starts from.
EmptyResult(sample_name) ==
    [sample_name |-> sample_name,
     icr1_m |-> <<>>, icr1_um |-> <<>>, icr2_m |-> <<>>, icr2_um |-> <<>>]

\* The list displays of lines 90-93 made as a module's constants would be:
\* once, whatever has been made since.
NewLists_MadeOnce(made) == <<1, 2, 3, 4>>

\* The four list displays "[]" of the record the function starts from: each
\* makes a new list object; objects are numbered as they are made.
NewLists(made) == <<made + 1, made + 2, made + 3, made + 4>>

\* Variants of the loop, for the variants of extract_sample_data below: how
\* says what the variant does differently.
SameSample(how, sample, sample_name) ==
    CASE how = "anysample" -> TRUE
      [] how = "casefold"  -> Lower(Strip(sample.chars, Whitespace))
                                = Lower(Strip(sample_name.chars, Whitespace))
      [] OTHER             -> sample = sample_name

Insert(how, seq, x) ==
    CASE how = "prepend"            -> <<x>> \o seq
      [] how = "dropnone" /\ x = None -> seq
      [] OTHER                        -> Append(seq, x)

VariantRow(how, result, row, sample_name, m_target, m_key, um_target, um_key) ==
    IF ~SameSample(how, DictGet(row, K_Sample), sample_name) THEN result
    ELSE IF DictGet(row, K_Target) = m_target
    THEN [result EXCEPT ![m_key] =
              Insert(how, @, safe_float_convert(DictGet(row, K_Cq)).value)]
    ELSE IF DictGet(row, K_Target) = um_target
    THEN [result EXCEPT ![um_key] =
              Insert(how, @, safe_float_convert(DictGet(row, K_Cq)).value)]
    ELSE result

RECURSIVE VariantLoop(_, _, _, _, _, _, _, _)
VariantLoop(how, result, data, sample_name, m_target, m_key, um_target, um_key) ==
    IF data = <<>> THEN result
    ELSE VariantLoop(how,
             VariantRow(how, result, Head(data), sample_name,
                        m_target, m_key, um_target, um_key),
             Tail(data), sample_name, m_target, m_key, um_target, um_key)

Variant(how, icr1, icr2, sample_name) ==
    Returned(VariantLoop(how,
        VariantLoop(how, EmptyResult(sample_name), icr1, sample_name,
                    ICR1_M, "icr1_m", ICR1_UM, "icr1_um"),
        icr2, sample_name, ICR2_M, "icr2_m", ICR2_UM, "icr2_um"))

\* extract_sample_data comparing sample names after strip() and lower().
extract_sample_data_Casefold(icr1, icr2, sample_name) ==
    Variant("casefold", icr1, icr2, sample_name)

\* extract_sample_data with insert(0, ...) in place of append(...).
extract_sample_data_Prepend(icr1, icr2, sample_name) ==
    Variant("prepend", icr1, icr2, sample_name)

\* extract_sample_data appending a measurement only if it is not None.
extract_sample_data_DropAbsent(icr1, icr2, sample_name) ==
    Variant("dropnone", icr1, icr2, sample_name)

\* extract_sample_data reading the rows of both files for either target.
extract_sample_data_Merged(icr1, icr2, sample_name) ==
    Variant("exact", icr1 \o icr2, icr1 \o icr2, sample_name)

\* extract_sample_data without the test of row['Sample'].
extract_sample_data_AnySample(icr1, icr2, sample_name) ==
    Variant("anysample", icr1, icr2, sample_name)

extract_sample_data(icr1, icr2, sample_name) ==
    ExtractLoop(
        ExtractLoop(Returned(EmptyResult(sample_name)), icr1, sample_name,
                    ICR1_M, "icr1_m", ICR1_UM, "icr1_um"),
        icr2, sample_name, ICR2_M, "icr2_m", ICR2_UM, "icr2_um")

\* The number of parameters of extract_sample_data.
ExtractParams == 3

\* A call of extract_sample_data with the positional arguments args: Python
\* binds them to the parameters before the body runs.
call_extract_sample_data(args) ==
    IF Len(args) # ExtractParams
    THEN Raised("TypeError",
                Info("extract_sample_data() takes 3 positional arguments", NoPath))
    ELSE extract_sample_data(args[1], args[2], args[3])

-----------------------------------------------------------------------------
(* data_parser.get_all_samples *)

\* The characters of the model in code point order.
CodeOrder ==
    <<"\t", "\n", "\r", " ", "\"", "#", "+", ",", "-", ".", "/">>
    \o DigitChars \o UpperLetters \o <<"_">> \o LowerLetters

CodePoint(c) == CHOOSE i \in DOMAIN CodeOrder : CodeOrder[i] = c

\* a < b for two str: by code points, a proper prefix first.
RECURSIVE CharsLess(_, _)
CharsLess(a, b) ==
    IF b = <<>> THEN FALSE
    ELSE IF a = <<>> THEN TRUE
    ELSE IF Head(a) = Head(b) THEN CharsLess(Tail(a), Tail(b))
    ELSE CodePoint(Head(a)) < CodePoint(Head(b))

StrLess(a, b) == CharsLess(a.chars, b.chars)

\* sorted(list(samples)) of a set of str
RECURSIVE Sorted(_)
Sorted(samples) ==
    IF samples = {} THEN <<>>
    ELSE LET least == CHOOSE x \in samples :
                          \A y \in samples \ {x} : StrLess(x, y)
         IN  <<least>> \o Sorted(samples \ {least})

\* The "for row in data: samples.add(row['Sample'])" loop.
RECURSIVE AddSamples(_, _)
AddSamples(acc, data) ==
    IF data = <<>> \/ acc.exc # "none" THEN acc
    ELSE LET sample == Subscript(Head(data), K_Sample) IN
         IF sample.exc # "none" THEN sample
         ELSE AddSamples(Returned(acc.value \cup {sample.value}), Tail(data))

\* get_all_samples returning the names in the order it met them, unsorted.
RECURSIVE FirstSeen(_, _)
FirstSeen(acc, data) ==
    IF data = <<>> THEN acc
    ELSE IF \E i \in DOMAIN acc : acc[i] = DictGet(Head(data), K_Sample)
    THEN FirstSeen(acc, Tail(data))
    ELSE FirstSeen(Append(acc, DictGet(Head(data), K_Sample)), Tail(data))

get_all_samples_Unsorted(icr1, icr2) ==
    Returned(FirstSeen(FirstSeen(<<>>, icr1), icr2))

get_all_samples(icr1, icr2) ==
    LET samples == AddSamples(AddSamples(Returned({}), icr1), icr2)
    IN  IF samples.exc # "none" THEN samples
        ELSE Returned(Sorted(samples.value))

-----------------------------------------------------------------------------
(* re.search for the patterns of report_generator.extract_plate_info: a    *)
(* pattern is a sequence of literals, of runs of digits (\d{min,max}) and  *)
(* of runs of upper case letters ([A-Z]+); one run is the group.           *)

\* A literal text; \d{min,max}; [A-Z]+ (max = 0: as many as there are).
Lit(text) ==
    [t |-> "lit", text |-> text, min |-> 0, max |-> 0, group |-> FALSE]
DigitRun(min, max, group) ==
    [t |-> "digit", text |-> <<>>, min |-> min, max |-> max, group |-> group]
UpperRun(group) ==
    [t |-> "upper", text |-> <<>>, min |-> 1, max |-> 0, group |-> group]

NoMatch == [ok |-> FALSE, group |-> <<>>]

\* The literal stands in s at pos.
LitAt(s, pos, text) ==
    /\ pos + Len(text) - 1 <= Len(s)
    /\ SubSeq(s, pos, pos + Len(text) - 1) = text

\* n characters of the class of the run e stand in s at pos.
RunAt(s, pos, e, n) ==
    /\ pos + n - 1 <= Len(s)
    /\ \A k \in pos..(pos + n - 1) :
          IF e.t = "digit" THEN IsDigit(s[k]) ELSE s[k] \in Range(UpperLetters)

\* The longest run the engine tries first.
Greedy(s, pos, e) == IF e.max = 0 THEN Len(s) - pos + 1 ELSE e.max

\* The pattern pat matched in s from pos on; a run is tried with n
\* characters, then with fewer (backtracking).
RECURSIVE MatchFrom(_, _, _)
RECURSIVE TryRun(_, _, _, _, _)
MatchFrom(s, pos, pat) ==
    IF pat = <<>> THEN [ok |-> TRUE, group |-> <<>>]
    ELSE IF Head(pat).t = "lit"
    THEN IF LitAt(s, pos, Head(pat).text)
         THEN MatchFrom(s, pos + Len(Head(pat).text), Tail(pat))
         ELSE NoMatch
    ELSE TryRun(s, pos, Head(pat), Tail(pat), Greedy(s, pos, Head(pat)))

TryRun(s, pos, e, rest, n) ==
    IF n < e.min THEN NoMatch
    ELSE IF RunAt(s, pos, e, n) /\ MatchFrom(s, pos + n, rest).ok
    THEN [ok |-> TRUE,
          group |-> IF e.group THEN SubSeq(s, pos, pos + n - 1)
                    ELSE MatchFrom(s, pos + n, rest).group]
    ELSE TryRun(s, pos, e, rest, n - 1)

\* re.search(pat, s): the match at the leftmost position that has one.
RECURSIVE SearchFrom(_, _, _)
SearchFrom(pat, s, pos) ==
    IF pos > Len(s) + 1 THEN NoMatch
    ELSE IF MatchFrom(s, pos, pat).ok THEN MatchFrom(s, pos, pat)
    ELSE SearchFrom(pat, s, pos + 1)

re_search(pat, s) == SearchFrom(pat, s, 1)

-----------------------------------------------------------------------------
(* report_generator.extract_plate_info *)

METHYLATION_ == <<"M","E","T","H","Y","L","A","T","I","O","N","_">>

\* r'METHYLATION_(\d{3,4})'
PlatePattern == <<Lit(METHYLATION_), DigitRun(3, 4, TRUE)>>
\* r'METHYLATION_\d{3,4}_(\d{6})'
DatePattern ==
    <<Lit(METHYLATION_), DigitRun(3, 4, FALSE), Lit(<<"_">>), DigitRun(6, 6, TRUE)>>
\* r'METHYLATION_\d{3,4}_\d{6}_([A-Z]+)'
InitialsPattern ==
    <<Lit(METHYLATION_), DigitRun(3, 4, FALSE), Lit(<<"_">>),
      DigitRun(6, 6, FALSE), Lit(<<"_">>), UpperRun(TRUE)>>

\* 'XXXX', 'MMDDYY' and 'XX'
NoPlate == Str(<<"X","X","X","X">>)
NoDate == Str(<<"M","M","D","D","Y","Y">>)
NoInitials == Str(<<"X","X">>)

\* match.group(1) if match else default
GroupOr(match, default) == IF match.ok THEN Str(match.group) ELSE default

\* extract_plate_info with "match.group(1)" and no "if match else ...".
extract_plate_info_NoDefault(filename) ==
    IF /\ re_search(PlatePattern, filename).ok
       /\ re_search(DatePattern, filename).ok
       /\ re_search(InitialsPattern, filename).ok
    THEN Returned(<<Str(re_search(PlatePattern, filename).group),
                    Str(re_search(DatePattern, filename).group),
                    Str(re_search(InitialsPattern, filename).group)>>)
    ELSE Raised("AttributeError",
                Info("'NoneType' object has no attribute 'group'", NoPath))

\* filename is the characters of the str passed.
extract_plate_info(filename) ==
    Returned(<<GroupOr(re_search(PlatePattern, filename), NoPlate),
               GroupOr(re_search(DatePattern, filename), NoDate),
               GroupOr(re_search(InitialsPattern, filename), NoInitials)>>)

-----------------------------------------------------------------------------
(* The parser as a state machine: a caller hands it a path; the file holds *)
(* some preamble lines, then (for an export in the expected format) the    *)
(* header line, then the lines of the table.                               *)

\* How many lines come before the header, and after it, at most.
MaxPreamble == 5
MaxBody == 3

\* '# c' and ' "Well","Well Position"' (the signature, but not at the start)
CommentLine == <<"#", " ", "c">>
IndentedSignature == <<" ">> \o HeaderSignature
PreambleLines == {CommentLine, IndentedSignature}

\* '"Well","Well Position","Cq"'
HeaderLine == HeaderSignature \o <<",", "\"", "C", "q", "\"">>

\* '"1","A1","20.1"' and '"2","A2",""'
DataLine1 ==
    <<"\"","1","\"",",","\"","A","1","\"",",","\"","2","0",".","1","\"">>
DataLine2 == <<"\"","2","\"",",","\"","A","2","\"",",","\"","\"">>
DataLines == {DataLine1, DataLine2}

\* '', ' ', '"3","A3"' and '"4","A4","1","2"': blank lines, a line with fewer
\* fields than the header and one with more.
EmptyLine == <<>>
SpaceLine == <<" ">>
ShortLine == <<"\"","3","\"",",","\"","A","3","\"">>
LongLine  ==
    <<"\"","4","\"",",","\"","A","4","\"",",","\"","1","\"",",","\"","2","\"">>
OddLines == {EmptyLine, SpaceLine, ShortLine, LongLine}

\* '"Well","Well Position","""Cq"""' and '"5","A5","""7"""': a header and a
\* data line whose last field has quote characters of its own, doubled as
\* the format has them.
QuoteHeaderLine ==
    HeaderSignature \o <<",", "\"", "\"", "\"", "C", "q", "\"", "\"", "\"">>
QuoteLine ==
    <<"\"","5","\"",",","\"","A","5","\"",",","\"","\"","\"","7","\"","\"","\"">>

SeqsUpTo(S, n) == UNION { [1..k -> S] : k \in 0..n }

CountIn(s, S) == Cardinality({i \in DOMAIN s : s[i] \in S})

\* The preambles: comment lines, at most one of them a near-miss of the header.
Preambles ==
    { p \in SeqsUpTo(PreambleLines, MaxPreamble) :
        CountIn(p, {IndentedSignature}) <= 1 }

\* The tables: data lines, at most one line among them that is not one or
\* that has quote characters in a field.
Bodies ==
    { b \in SeqsUpTo(DataLines \cup OddLines \cup {QuoteLine}, MaxBody) :
        CountIn(b, OddLines \cup {QuoteLine}) <= 1 }

\* The files: with a header line, or without any.
Files ==
    { p \o h \o b : p \in Preambles,
                    h \in {<<HeaderLine>>, <<QuoteHeaderLine>>, <<>>}, b \in Bodies }

Paths == {"ICR1_Results.csv", "ICR2_Results.csv"}

ParseIdle ==
    /\ ppc = "idle"
    /\ file_path = NoPath
    /\ lines = <<>>
    /\ parse_out = Pending
    /\ parse_refs = <<>>
    /\ allocated = 0
    /\ kept = <<>>

\* A caller calls parse_qpcr_csv(file_path); the file is read.
ParseCall ==
    /\ ppc = "idle"
    /\ npc = "idle" /\ apc \in {"idle", "loaded"} /\ WriteAtRest /\ ReportAtRest
    /\ \E path \in Paths, f \in Files :
          /\ file_path' = path
          /\ lines' = f
    /\ ppc' = "running"
    /\ parse_out' = Pending
    /\ UNCHANGED <<parse_refs, allocated, kept>>
    /\ UNCHANGED <<normVars, aggVars, writeVars, reportVars>>

\* parse_qpcr_csv runs to its return or to the exception it raises; what it
\* returns is a list and a dict per row, made in the call.
ParseReturn ==
    /\ ppc = "running"
    /\ parse_out' = parse_qpcr_csv(file_path, lines)
    /\ parse_refs' = IF parse_out'.exc = "none"
                     THEN NewObjects(allocated, Len(parse_out'.value))
                     ELSE <<>>
    /\ allocated' = allocated + Len(parse_refs')
    /\ ppc' = "returned"
    /\ UNCHANGED <<file_path, lines, kept>>
    /\ UNCHANGED <<normVars, aggVars, writeVars, reportVars>>

\* The caller is done with the result; the parser keeps nothing.
ParseDone ==
    /\ ppc = "returned"
    /\ ppc' = "idle"
    /\ file_path' = NoPath
    /\ lines' = <<>>
    /\ parse_out' = Pending
    /\ parse_refs' = <<>>
    /\ allocated' = allocated - Len(parse_refs)
    /\ UNCHANGED kept
    /\ UNCHANGED <<normVars, aggVars, writeVars, reportVars>>

\* How many results of the parser the caller holds at most while it makes a
\* further call.
MaxKept == 2

\* Files of two lines at most: a header and a data line, a header alone, and
\* a data line with no header.
FewFiles ==
    { <<HeaderLine, DataLine1>>, <<HeaderLine>>, <<DataLine1>> }

\* A caller that keeps results calls parse_qpcr_csv(file_path).
KeepCall ==
    /\ ppc = "idle"
    /\ npc = "idle" /\ apc \in {"idle", "loaded"} /\ WriteAtRest /\ ReportAtRest
    /\ \E path \in Paths, f \in FewFiles :
          /\ file_path' = path
          /\ lines' = f
    /\ ppc' = "running"
    /\ parse_out' = Pending
    /\ UNCHANGED <<parse_refs, allocated, kept>>
    /\ UNCHANGED <<normVars, aggVars, writeVars, reportVars>>

\* The caller keeps the result, as main keeps target1_data while it parses
\* the second file, and goes on.
KeepParsed ==
    /\ ppc = "returned"
    /\ Len(kept) < MaxKept
    /\ kept' = Append(kept, [path |-> file_path, lines |-> lines,
                             first |-> parse_out, out |-> parse_out,
                             refs |-> parse_refs, changed |-> FALSE])
    /\ ppc' = "idle"
    /\ file_path' = NoPath
    /\ lines' = <<>>
    /\ parse_out' = Pending
    /\ parse_refs' = <<>>
    /\ UNCHANGED allocated
    /\ UNCHANGED <<normVars, aggVars, writeVars, reportVars>>

\* result.append({}) on a list: whoever holds that list object sees the row.
Appended(out, refs, list) ==
    IF refs # <<>> /\ refs[1] = list
    THEN Returned(Append(out.value, <<>>))
    ELSE out

\* The caller changes a result it holds: it appends a row to the list.
ChangeKept ==
    /\ ppc \in {"idle", "returned"}
    /\ \E k \in DOMAIN kept :
          /\ kept[k].refs # <<>>
          /\ ~kept[k].changed
          /\ kept' = [j \in DOMAIN kept |->
                        [kept[j] EXCEPT
                           !.out = Appended(kept[j].out, kept[j].refs, kept[k].refs[1]),
                           !.changed = (j = k) \/ kept[j].changed]]
          /\ parse_out' = Appended(parse_out, parse_refs, kept[k].refs[1])
    /\ UNCHANGED <<ppc, file_path, lines, parse_refs, allocated>>
    /\ UNCHANGED <<normVars, aggVars, writeVars, reportVars>>

-----------------------------------------------------------------------------
(* The aggregator as a state machine: two parsed row lists, and callers    *)
(* that query them.                                                        *)

\* How many rows the two row lists hold together at most.
MaxRows == 3

Row(sample, target, cq) ==
    <<[key |-> K_Sample, val |-> Str(sample)],
      [key |-> K_Target, val |-> target],
      [key |-> K_Cq, val |-> Str(cq)]>>

\* Rows of the first export: samples 'X', 'Y' and 'x'.
Rows1 ==
    { Row(<<"X">>, ICR1_M, <<"2","0",".","1">>),
      Row(<<"X">>, ICR1_UM, <<"U","n","d","e","t","e","r","m","i","n","e","d">>),
      Row(<<"Y">>, ICR1_M, <<"1","9",".","0">>),
      Row(<<"x">>, ICR1_M, <<"2","1">>),
      Row(<<"X">>, ICR1_M, <<>>),
      Row(<<"X">>, ICR2_M, <<"2","2">>) }

\* Rows of the second export: samples 'X' and 'X ', one row with a target of
\* the first export.
Rows2 ==
    { Row(<<"X">>, ICR2_M, <<"3","0">>),
      Row(<<"X">>, ICR2_UM, <<"a","b","c">>),
      Row(<<"X"," ">>, ICR2_M, <<"3","1">>),
      Row(<<"X">>, ICR1_M, <<"2","3">>) }

DataPairs ==
    { d \in SeqsUpTo(Rows1, MaxRows) \X SeqsUpTo(Rows2, MaxRows) :
        Len(d[1]) + Len(d[2]) <= MaxRows }

\* How many rows a sample has for one target at most.
MaxReplicates == 4

\* The Cq cells of a row: '', '0' and '20.1'
CqCells == { <<>>, <<"0">>, <<"2","0",".","1">> }

CqCellLists == SeqsUpTo(CqCells, MaxReplicates)

Reverse(s) == [i \in DOMAIN s |-> s[Len(s) + 1 - i]]
ButLast(s) == SubSeq(s, 1, Len(s) - 1)
ButFirst(s) == SubSeq(s, 2, Len(s))

\* A first export that holds the replicate rows of sample 'X' for ICR1_M,
\* and a second that holds as many for ICR2_UM.
Replicates(cells) ==
    << [i \in DOMAIN cells |-> Row(<<"X">>, ICR1_M, cells[i])],
       [i \in DOMAIN cells |-> Row(<<"X">>, ICR2_UM, Reverse(cells)[i])] >>

\* The sample ids asked for: one that is there and one that is not.
SampleX == Str(<<"X">>)
SampleZ == Str(<<"Z">>)

\* The target names generate_report_win32 is given: ICR1/ICR2 or PEG1/GRB.
TagPairs ==
    { <<Str(<<"I","C","R","1">>), Str(<<"I","C","R","2">>)>>,
      <<Str(<<"P","E","G","1">>), Str(<<"G","R","B">>)>> }

NoCall == [fn |-> "none", args |-> <<>>]

AggIdle ==
    /\ apc = "idle"
    /\ icr1_data = <<>>
    /\ icr2_data = <<>>
    /\ call = NoCall
    /\ agg_out = Pending
    /\ agg_lists = <<>>
    /\ objects = 0
    /\ held = <<>>

\* The program is single-threaded: a component is entered only while the
\* others are at rest.
NormAtRest == npc = "idle"
ParseAtRest == ppc = "idle"
AggAtRest == apc \in {"idle", "loaded"}

\* The caller has parsed the two exports and holds their row lists.
LoadRows ==
    /\ apc = "idle"
    /\ NormAtRest /\ ParseAtRest /\ WriteAtRest /\ ReportAtRest
    /\ \E d \in DataPairs : icr1_data' = d[1] /\ icr2_data' = d[2]
    /\ apc' = "loaded"
    /\ UNCHANGED <<call, agg_out, agg_lists, objects, held>>
    /\ UNCHANGED <<normVars, parseVars, writeVars, reportVars>>

\* The same for two exports that hold the replicates of one sample only.
LoadReplicates ==
    /\ apc = "idle"
    /\ NormAtRest /\ ParseAtRest /\ WriteAtRest /\ ReportAtRest
    /\ \E cells \in CqCellLists :
          /\ icr1_data' = Replicates(cells)[1]
          /\ icr2_data' = Replicates(cells)[2]
    /\ apc' = "loaded"
    /\ UNCHANGED <<call, agg_out, agg_lists, objects, held>>
    /\ UNCHANGED <<normVars, parseVars, writeVars, reportVars>>

\* data_parser's own caller: extract_sample_data(icr1_data, icr2_data, name)
ExtractCall ==
    /\ apc = "loaded"
    /\ NormAtRest /\ ParseAtRest /\ WriteAtRest /\ ReportAtRest
    /\ \E name \in {SampleX, SampleZ} :
          call' = [fn |-> "extract_sample_data", args |-> <<name>>]
    /\ apc' = "running"
    /\ UNCHANGED <<icr1_data, icr2_data, agg_out, agg_lists, objects, held>>
    /\ UNCHANGED <<normVars, parseVars, writeVars, reportVars>>

\* generate_report_win32: extract_sample_data(target1_data, target2_data,
\* sample_name, target1_name, target2_name)
ReportExtractCall ==
    /\ apc = "loaded"
    /\ NormAtRest /\ ParseAtRest /\ WriteAtRest /\ ReportAtRest
    /\ \E tags \in TagPairs :
          call' = [fn |-> "extract_sample_data",
                   args |-> <<SampleX, tags[1], tags[2]>>]
    /\ apc' = "running"
    /\ UNCHANGED <<icr1_data, icr2_data, agg_out, agg_lists, objects, held>>
    /\ UNCHANGED <<normVars, parseVars, writeVars, reportVars>>

\* main: get_all_samples(target1_data, target2_data)
GetAllSamplesCall ==
    /\ apc = "loaded"
    /\ NormAtRest /\ ParseAtRest /\ WriteAtRest /\ ReportAtRest
    /\ call' = [fn |-> "get_all_samples", args |-> <<>>]
    /\ apc' = "running"
    /\ UNCHANGED <<icr1_data, icr2_data, agg_out, agg_lists, objects, held>>
    /\ UNCHANGED <<normVars, parseVars, writeVars, reportVars>>

\* The called function runs to its return or to the exception it raises.
\* A record extract_sample_data returns holds four lists made in the call.
AggReturn ==
    /\ apc = "running"
    /\ agg_out' =
          IF call.fn = "get_all_samples"
          THEN get_all_samples(icr1_data, icr2_data)
          ELSE call_extract_sample_data(<<icr1_data, icr2_data>> \o call.args)
    /\ agg_lists' =
          IF call.fn = "extract_sample_data" /\ Len(call.args) + 2 = ExtractParams
          THEN NewLists(objects)
          ELSE <<>>
    /\ objects' = objects + Len(agg_lists')
    /\ apc' = "returned"
    /\ UNCHANGED <<icr1_data, icr2_data, call, held>>
    /\ UNCHANGED <<normVars, parseVars, writeVars, reportVars>>

\* The caller is done with the result and drops it; the row lists are as
\* they were.
AggDone ==
    /\ apc = "returned"
    /\ apc' = "loaded"
    /\ call' = NoCall
    /\ agg_out' = Pending
    /\ agg_lists' = <<>>
    /\ objects' = objects - Len(agg_lists)
    /\ UNCHANGED <<icr1_data, icr2_data, held>>
    /\ UNCHANGED <<normVars, parseVars, writeVars, reportVars>>

\* How many results the caller holds at most while it makes a further call.
MaxHeld == 2

\* Row lists of one row at most.
FewRows == { d \in DataPairs : Len(d[1]) + Len(d[2]) <= 1 }

\* The caller has parsed two exports of one row at most.
LoadFewRows ==
    /\ apc = "idle"
    /\ NormAtRest /\ ParseAtRest /\ WriteAtRest /\ ReportAtRest
    /\ \E d \in FewRows : icr1_data' = d[1] /\ icr2_data' = d[2]
    /\ apc' = "loaded"
    /\ UNCHANGED <<call, agg_out, agg_lists, objects, held>>
    /\ UNCHANGED <<normVars, parseVars, writeVars, reportVars>>

\* The caller keeps the result, as generate_report_win32 keeps sample_data,
\* hct116_data and the control data, and goes on to the next call.
KeepResult ==
    /\ apc = "returned"
    /\ Len(held) < MaxHeld
    /\ held' = Append(held, [call |-> call,
                             rows |-> <<icr1_data, icr2_data>>,
                             out |-> agg_out,
                             lists |-> agg_lists])
    /\ apc' = "loaded"
    /\ call' = NoCall
    /\ agg_out' = Pending
    /\ agg_lists' = <<>>
    /\ UNCHANGED <<icr1_data, icr2_data, objects>>
    /\ UNCHANGED <<normVars, parseVars, writeVars, reportVars>>

-----------------------------------------------------------------------------
(* report_generator.populate_stepone_data_win32,                           *)
(* populate_hct116_controls_win32 and populate_controls_win32: writing the *)
(* measurements of a sample into the 'StepOne Data' worksheet.             *)

\* What a cell holds: nothing, a value (ws.Cells(r, c).Value = v), or one of
\* the formulas '=A<row>' and '=$A$<row>' (ws.Cells(r, c).Formula = ...).
EmptyCell == [kind |-> "blank"]
Value(v) == [kind |-> "value", v |-> v]
Formula(absolute, row) ==
    [kind |-> "formula", absolute |-> absolute, row |-> row]

\* The statements of the populate functions: an assignment to a cell, and
\*   if idx < len(data[key]) and data[key][idx] is not None:
\*       ws.Cells(row, col).Value = data[key][idx]
SetCell(row, col, content) ==
    [op |-> "set", row |-> row, col |-> col, content |-> content]
SetCq(row, col, data, key, idx) ==
    [op |-> "cq", row |-> row, col |-> col,
     data |-> data, key |-> key, idx |-> idx]

\* The conditional assignment writing 0 where the measurement is None.
ExecStatement_ZeroForNone(st, stmt) ==
    IF st.exc # "none" THEN st
    ELSE IF stmt.op = "set"
    THEN [st EXCEPT !.ws[<<stmt.row, stmt.col>>] = stmt.content]
    ELSE IF stmt.key \notin DOMAIN stmt.data
    THEN [st EXCEPT !.exc = "KeyError"]
    ELSE IF stmt.idx < Len(stmt.data[stmt.key])
    THEN [st EXCEPT !.ws[<<stmt.row, stmt.col>>] =
              IF stmt.data[stmt.key][stmt.idx + 1] = None
              THEN Value(Float(0, 0))
              ELSE Value(stmt.data[stmt.key][stmt.idx + 1])]
    ELSE st

\* One statement run on st = [ws, exc]: the sheet so far and the exception
\* raised so far ("none" while none is).
ExecStatement(st, stmt) ==
    IF st.exc # "none" THEN st
    ELSE IF stmt.op = "set"
    THEN [st EXCEPT !.ws[<<stmt.row, stmt.col>>] = stmt.content]
    ELSE IF stmt.key \notin DOMAIN stmt.data
    THEN [st EXCEPT !.exc = "KeyError"]
    ELSE IF /\ stmt.idx < Len(stmt.data[stmt.key])
            /\ stmt.data[stmt.key][stmt.idx + 1] # None
    THEN [st EXCEPT !.ws[<<stmt.row, stmt.col>>] =
              Value(stmt.data[stmt.key][stmt.idx + 1])]
    ELSE st

RECURSIVE RunStatements(_, _)
RunStatements(st, stmts) ==
    IF stmts = <<>> THEN st
    ELSE LET next == ExecStatement(st, Head(stmts))
         IN  IF next.exc # "none" THEN next
             ELSE RunStatements(next, Tail(stmts))

\* The twelve statements populate_stepone_data_win32 has for one target:
\* three rows from start on, the measurements in columns C and J.
StepOneRows(data, start, m_key, um_key) ==
    << SetCell(start, 1, Value(data.sample_name)),
       SetCq(start, 3, data, m_key, 0),
       SetCell(start, 8, Formula(FALSE, start)),
       SetCq(start, 10, data, um_key, 0),
       SetCell(start + 1, 1, Formula(TRUE, start)),
       SetCq(start + 1, 3, data, m_key, 1),
       SetCell(start + 1, 8, Formula(FALSE, start + 1)),
       SetCq(start + 1, 10, data, um_key, 1),
       SetCell(start + 2, 1, Formula(TRUE, start)),
       SetCq(start + 2, 3, data, m_key, 2),
       SetCell(start + 2, 8, Formula(TRUE, start)),
       SetCq(start + 2, 10, data, um_key, 2) >>

populate_stepone_data_win32(sheet, sample_data, target1_start_row, target2_start_row) ==
    RunStatements([ws |-> sheet, exc |-> "none"],
        StepOneRows(sample_data, target1_start_row, "target1_m", "target1_um")
        \o StepOneRows(sample_data, target2_start_row, "target2_m", "target2_um"))

\* The loop running over every replicate there is: "for rep_idx in
\* range(len(data[m_key]))".
RECURSIVE ReplicateRows_EveryReplicate(_, _, _, _, _)
ReplicateRows_EveryReplicate(data, start, m_key, um_key, rep) ==
    IF rep >= 3 /\ rep >= Len(data[m_key]) THEN <<>>
    ELSE << SetCell(start + rep, 1, Value(data.sample_name)),
            SetCell(start + rep, 8, Value(data.sample_name)),
            SetCq(start + rep, 3, data, m_key, rep),
            SetCq(start + rep, 10, data, um_key, rep) >>
         \o ReplicateRows_EveryReplicate(data, start, m_key, um_key, rep + 1)

\* The body of a "for rep_idx in range(3)" loop, for rep_idx from rep on.
RECURSIVE ReplicateRows(_, _, _, _, _)
ReplicateRows(data, start, m_key, um_key, rep) ==
    IF rep = 3 THEN <<>>
    ELSE << SetCell(start + rep, 1, Value(data.sample_name)),
            SetCell(start + rep, 8, Value(data.sample_name)),
            SetCq(start + rep, 3, data, m_key, rep),
            SetCq(start + rep, 10, data, um_key, rep) >>
         \o ReplicateRows(data, start, m_key, um_key, rep + 1)

populate_hct116_controls_win32(sheet, hct116_data, target1_start_row, target2_start_row) ==
    RunStatements([ws |-> sheet, exc |-> "none"],
        ReplicateRows(hct116_data, target1_start_row, "target1_m", "target1_um", 0)
        \o ReplicateRows(hct116_data, target2_start_row, "target2_m", "target2_um", 0))

\* The loop over the controls giving each control four rows.
RECURSIVE ControlRows_FourRowsEach(_, _, _, _, _)
ControlRows_FourRowsEach(controls_data, start, m_key, um_key, control_idx) ==
    IF control_idx = 3 THEN <<>>
    ELSE ReplicateRows(controls_data[control_idx + 1],
                       start + (control_idx * 4), m_key, um_key, 0)
         \o ControlRows_FourRowsEach(controls_data, start, m_key, um_key,
                                     control_idx + 1)

\* The body of a "for control_idx in range(3)" loop, for control_idx from
\* control_idx on.
RECURSIVE ControlRows(_, _, _, _, _)
ControlRows(controls_data, start, m_key, um_key, control_idx) ==
    IF control_idx = 3 THEN <<>>
    ELSE ReplicateRows(controls_data[control_idx + 1],
                       start + (control_idx * 3), m_key, um_key, 0)
         \o ControlRows(controls_data, start, m_key, um_key, control_idx + 1)

populate_controls_win32(sheet, target1_controls_data, target2_controls_data, target1_start_row, target2_start_row) ==
    RunStatements([ws |-> sheet, exc |-> "none"],
        ControlRows(target1_controls_data, target1_start_row,
                    "target1_m", "target1_um", 0)
        \o ControlRows(target2_controls_data, target2_start_row,
                       "target2_m", "target2_um", 0))

-----------------------------------------------------------------------------
(* report_generator.generate_report_win32.  A file is its name and its     *)
(* lines; the template is whether it exists and its sheet; what the        *)
(* function does to the file system is the list of its operations.         *)

HCT116 == Str(<<"H","C","T","1","1","6">>)

\* The operations on files: shutil.copy2 to the temp file, wb.SaveAs to the
\* output file, temp_file.unlink and output_dir.mkdir.
CopyToTemp(output_file) == [op |-> "copy2", file |-> <<"temp_", output_file>>]
SaveAs(output_file, sheet) == [op |-> "SaveAs", file |-> output_file, sheet |-> sheet]
UnlinkTemp(output_file) == [op |-> "unlink", file |-> <<"temp_", output_file>>]
MkDir == [op |-> "mkdir", file |-> "output"]

\* How a call ends: what it returned or raised, and its file operations.
Ended(out, ops) == [out |-> out, ops |-> ops]

\* list.append of what a call returned; the exception where it raised.
Collect(acc, ended) ==
    IF ended.exc # "none" THEN ended ELSE Returned(Append(acc.value, ended.value))

\* The calls of extract_sample_data in the order of the code, one per name
\* of names; the first exception ends them.
RECURSIVE ExtractEach(_, _, _, _, _)
ExtractEach(acc, tables, names, target1_name, target2_name) ==
    IF names = <<>> \/ acc.exc # "none" THEN acc
    ELSE ExtractEach(
             Collect(acc, call_extract_sample_data(<<tables[1], tables[2],
                              Head(names), target1_name, target2_name>>)),
             tables, Tail(names), target1_name, target2_name)

\* 'RSS' if target1_name == 'PEG1' else 'BWS'
AssayPrefix(target1_name) ==
    IF target1_name = Str(<<"P","E","G","1">>) THEN <<"R","S","S">> ELSE <<"B","W","S">>

\* f"{prefix}_QS6_METHYL_{plate_number}_{date_mmddyy}_{initials}"
PlateIdentifier(target1_file, target1_name) ==
    LET info == extract_plate_info(target1_file.name).value
    IN  Str(AssayPrefix(target1_name) \o <<"_","Q","S","6","_","M","E","T","H","Y","L","_">>
            \o info[1].chars \o <<"_">> \o info[2].chars \o <<"_">> \o info[3].chars)

\* What the function does to Excel: a call made of the application or the
\* workbook, and a warning printed by one of the except clauses that do not
\* re-raise.
ComCall(name) == [op |-> "call", file |-> name]
Warning(name) == [op |-> "warning", file |-> name]

\* What the statements of the try statement are about.  excel, the state
\* Excel is in, is "ok" or the one of these that raises.
Dispatch == "Dispatch"
WorkbooksOpen == "Workbooks.Open"
FinalSheet == "Final"
Activate == "Activate"
Macro1 == "Transfer_stepOne_to_Raw"
Macro2 == "Copy_Raw_to_summarized"
Sheet1 == "Sheet1"
WbSaveAs == "SaveAs"

\* The sheet and the exception after a populate call, and the calls so far.
Logged(st, name, result) ==
    [ws |-> result.ws, exc |-> result.exc, log |-> Append(st.log, ComCall(name))]

\* populate_controls_win32 where both lists have controls.
FillControls(st, target1_controls_data, target2_controls_data) ==
    IF st.exc # "none" THEN st
    ELSE IF target1_controls_data # <<>> /\ target2_controls_data # <<>>
    THEN Logged(st, "populate_controls_win32",
                populate_controls_win32(st.ws, target1_controls_data,
                                        target2_controls_data, 12, 30))
    ELSE st

\* populate_hct116_controls_win32 unless an exception is under way.
FillHct116(st, hct116_data) ==
    IF st.exc # "none" THEN st
    ELSE Logged(st, "populate_hct116_controls_win32",
                populate_hct116_controls_win32(st.ws, hct116_data, 9, 27))

\* The body of the try statement as far as the sheet 'StepOne Data' goes:
\* the plate identifier and the three populate calls.
FillStepOne(sheet, target1_file, target1_name, sample_data, hct116_data, target1_controls_data, target2_controls_data) ==
    FillControls(
        FillHct116(
            Logged([log |-> <<>>], "populate_stepone_data_win32",
                populate_stepone_data_win32(
                    [sheet EXCEPT ![<<1, 1>>] =
                        Value(PlateIdentifier(target1_file, target1_name))],
                    sample_data, 6, 24)),
            hct116_data),
        target1_controls_data, target2_controls_data)

\* A statement inside a try statement whose except clause prints a warning.
Warned(name, excel) ==
    <<ComCall(name)>> \o (IF excel = name THEN <<Warning(name)>> ELSE <<>>)

\* The try statement of the macros: ws_stepone.Activate(), whose exception
\* the outer except clause takes, and the two calls of excel.Run, each in a
\* try statement of its own.
RunMacros(excel) ==
    IF excel = Activate THEN Warned(Activate, excel)
    ELSE <<ComCall(Activate)>> \o Warned(Macro1, excel) \o Warned(Macro2, excel)

\* The finally clause: wb.Close(SaveChanges=False) if wb, excel.Quit() if
\* excel, temp_file.unlink().
Finally(output_file, excel) ==
    (IF excel \in {Dispatch, WorkbooksOpen} THEN <<>> ELSE <<ComCall("Close")>>)
    \o (IF excel = Dispatch THEN <<>> ELSE <<ComCall("Quit")>>)
    \o <<UnlinkTemp(output_file)>>

\* How the try statement ends once the sheet is filled: the Final sheet,
\* the macros and Sheet1, whose failures are warnings, and wb.SaveAs, whose
\* exception goes on, as does that of a populate call.
SaveOrRaise(filled, output_file, excel) ==
    IF filled.exc # "none"
    THEN Ended(Raised(filled.exc, Info("missing key", NoPath)), filled.log)
    ELSE IF excel = WbSaveAs
    THEN Ended(Raised("com_error", Info("Excel", NoPath)),
               filled.log \o Warned(FinalSheet, excel) \o RunMacros(excel)
               \o Warned(Sheet1, excel) \o <<ComCall(WbSaveAs)>>)
    ELSE Ended(Returned(None),
               filled.log \o Warned(FinalSheet, excel) \o RunMacros(excel)
               \o Warned(Sheet1, excel)
               \o <<ComCall(WbSaveAs), SaveAs(output_file, filled.ws)>>)

\* The try statement with its finally clause, tried being how the body
\* ended.
TryFinally(tried, output_file, excel) ==
    Ended(tried.out,
          <<CopyToTemp(output_file)>> \o tried.ops \o Finally(output_file, excel))

\* From "shutil.copy2(template_file, temp_file)" on: the copy, the try
\* statement and its finally clause.  extracted holds the sample's record,
\* HCT116's and those of the controls, or the exception.
CopyAndFill(extracted, target1_file, template_file, output_file, target1_name, controls, excel) ==
    IF extracted.exc # "none" THEN Ended(extracted, <<>>)
    ELSE IF ~template_file.exists
    THEN Ended(Raised("FileNotFoundError", Info("No such file", NoPath)), <<>>)
    ELSE IF excel = Dispatch
    THEN TryFinally(Ended(Raised("com_error", Info("Excel", NoPath)),
                          <<ComCall(Dispatch)>>), output_file, excel)
    ELSE IF excel = WorkbooksOpen
    THEN TryFinally(Ended(Raised("com_error", Info("Excel", NoPath)),
                          <<ComCall(Dispatch), ComCall(WorkbooksOpen)>>),
                    output_file, excel)
    ELSE TryFinally(
             LET tried ==
                   SaveOrRaise(
                       FillStepOne(template_file.sheet, target1_file, target1_name,
                           extracted.value[1], extracted.value[2],
                           SubSeq(extracted.value, 3, 2 + controls),
                           SubSeq(extracted.value, 3 + controls, 2 + 2 * controls)),
                       output_file, excel)
             IN  Ended(tried.out,
                       <<ComCall(Dispatch), ComCall(WorkbooksOpen)>> \o tried.ops),
             output_file, excel)

\* The names extract_sample_data is called with: the sample, 'HCT116' and,
\* where both lists have controls, the controls of the two targets.
NamesToExtract(sample_name, target1_controls, target2_controls) ==
    <<sample_name, HCT116>>
    \o (IF target1_controls # <<>> /\ target2_controls # <<>>
        THEN target1_controls \o target2_controls ELSE <<>>)

\* parse_qpcr_csv(target1_file) and parse_qpcr_csv(target2_file)
ParseExports(target1_file, target2_file) ==
    [i \in {1, 2} |-> parse_qpcr_csv(<<target1_file, target2_file>>[i].name,
                                     <<target1_file, target2_file>>[i].lines)]

\* From "sample_data = extract_sample_data(...)" on; parsed is what the two
\* calls of parse_qpcr_csv ended with.
ExtractAndFill(parsed, target1_file, template_file, output_file, sample_name, target1_controls, target2_controls, target1_name, target2_name, excel) ==
    IF parsed[1].exc # "none" THEN Ended(parsed[1], <<>>)
    ELSE IF parsed[2].exc # "none" THEN Ended(parsed[2], <<>>)
    ELSE CopyAndFill(
             ExtractEach(Returned(<<>>), <<parsed[1].value, parsed[2].value>>,
                 NamesToExtract(sample_name, target1_controls, target2_controls),
                 target1_name, target2_name),
             target1_file, template_file, output_file, target1_name,
             IF target1_controls # <<>> /\ target2_controls # <<>>
             THEN Len(target1_controls) ELSE 0,
             excel)

\* The template copied to the temp file before anything else, and the temp
\* file removed at the end.
CopiedFirst(ended, template_file, output_file) ==
    IF ~template_file.exists
    THEN Ended(Raised("FileNotFoundError", Info("No such file", NoPath)), <<>>)
    ELSE IF ended.ops # <<>> THEN ended
    ELSE Ended(ended.out, <<CopyToTemp(output_file), UnlinkTemp(output_file)>>)

\* generate_report_win32 copying the template before it parses the exports.
generate_report_win32_CopyFirst(target1_file, target2_file, template_file, output_file, sample_name, target1_controls, target2_controls, target1_name, target2_name, excel) ==
    CopiedFirst(
        ExtractAndFill(ParseExports(target1_file, target2_file), target1_file,
            template_file, output_file, sample_name, target1_controls,
            target2_controls, target1_name, target2_name, excel),
        template_file, output_file)

\* The controls default to None: here the empty sequence, which "if
\* target1_controls and target2_controls" treats alike.
generate_report_win32(target1_file, target2_file, template_file, output_file, sample_name, target1_controls, target2_controls, target1_name, target2_name, excel) ==
    ExtractAndFill(ParseExports(target1_file, target2_file), target1_file,
        template_file, output_file, sample_name, target1_controls,
        target2_controls, target1_name, target2_name, excel)

-----------------------------------------------------------------------------
(* main.main, from the two selected files on.  What the user enters is an  *)
(* input: the mode, the number of the sample, the controls.                *)

\* sub in s
Contains(s, sub) ==
    \E i \in 1..(Len(s) - Len(sub) + 1) : SubSeq(s, i, i + Len(sub) - 1) = sub

\* str.replace(old, new) for one character old
RECURSIVE Replace(_, _, _)
Replace(s, old, new) ==
    IF s = <<>> THEN <<>>
    ELSE <<IF Head(s) = old THEN new ELSE Head(s)>> \o Replace(Tail(s), old, new)

Assay(assay_type, template_name, target1_name, target2_name) ==
    [assay_type |-> assay_type, template_name |-> template_name,
     target1_name |-> target1_name, target2_name |-> target2_name]

detect_assay_type(filename) ==
    IF StartsWith(Upper(filename), <<"B","W","S">>)
    THEN Assay("BWS", "qs6_bws_template.xlsm", <<"I","C","R","1">>, <<"I","C","R","2">>)
    ELSE IF StartsWith(Upper(filename), <<"R","S","S">>)
    THEN Assay("RSS", "qs6_rss_template.xlsm", <<"P","E","G","1">>, <<"G","R","B">>)
    ELSE Assay("BWS", "qs6_bws_template.xlsm", <<"I","C","R","1">>, <<"I","C","R","2">>)

\* target1_file_sorted and target2_file_sorted
SortedFiles(target1_file, target2_file, assay) ==
    IF Contains(Upper(target1_file.name), assay.target1_name)
    THEN <<target1_file, target2_file>>
    ELSE IF Contains(Upper(target1_file.name), assay.target2_name)
    THEN <<target2_file, target1_file>>
    ELSE <<target1_file, target2_file>>

\* [s for s in all_samples if not s.startswith('Control ') and s != 'HCT116'
\*  and s != 'NTC']
IsTestSample(s) ==
    /\ ~StartsWith(s.chars, <<"C","o","n","t","r","o","l"," ">>)
    /\ s # HCT116
    /\ s # Str(<<"N","T","C">>)

RECURSIVE TestSamples(_)
TestSamples(all_samples) ==
    IF all_samples = <<>> THEN <<>>
    ELSE (IF IsTestSample(Head(all_samples)) THEN <<Head(all_samples)>> ELSE <<>>)
         \o TestSamples(Tail(all_samples))

\* output_dir / f"{safe_name}_{plate_number}_{initials}.xlsm"
OutputFile(sample_name, info) ==
    Replace(Replace(sample_name.chars, " ", "_"), "/", "-")
    \o <<"_">> \o info[1].chars \o <<"_">> \o info[3].chars
    \o <<".","x","l","s","m">>

\* How main ends: by sys.exit with a status or by returning, the step it
\* ended in, its file operations and, per call of generate_report_win32,
\* the sample and how the call ended.
MainEnded(exit, step, ops, reports) ==
    [exit |-> exit, step |-> step, ops |-> ops, reports |-> reports]

\* One pass of the loop: the call of generate_report_win32 for the sample,
\* whose exception the except clause prints.
ReportFor(sample_name, run) ==
    generate_report_win32(run.target1_file, run.target2_file,
        run.template_file, OutputFile(sample_name, run.info),
        sample_name, run.target1_controls, run.target2_controls,
        Str(run.assay.target1_name), Str(run.assay.target2_name), run.excel)

\* What the loop has done after a pass: the file operations, and per call
\* the sample, the output file and how the call ended.
Reported(acc, sample_name, run, ended) ==
    MainEnded("return", "reports", acc.ops \o ended.ops,
              Append(acc.reports,
                     [sample_name |-> sample_name,
                      output_file |-> OutputFile(sample_name, run.info),
                      out |-> ended.out]))

\* The loop without the try statement: the first exception ends it.
RECURSIVE GenerateReports_StopAtError(_, _, _)
GenerateReports_StopAtError(acc, selected_samples, run) ==
    IF selected_samples = <<>> THEN acc
    ELSE LET next == Reported(acc, Head(selected_samples), run,
                              ReportFor(Head(selected_samples), run))
         IN  IF next.reports[Len(next.reports)].out.exc # "none" THEN next
             ELSE GenerateReports_StopAtError(next, Tail(selected_samples), run)

\* The "for i, sample_name in enumerate(selected_samples, 1)" loop; run holds
\* what every call is given.
RECURSIVE GenerateReports(_, _, _)
GenerateReports(acc, selected_samples, run) ==
    IF selected_samples = <<>> THEN acc
    ELSE GenerateReports(
             Reported(acc, Head(selected_samples), run,
                      ReportFor(Head(selected_samples), run)),
             Tail(selected_samples), run)

\* From "selected_samples" on: the plate information, the template, the
\* output directory and the reports.
Generate(selected_samples, files, assay, template_file, target1_controls, target2_controls, excel) ==
    IF ~template_file.exists THEN MainEnded("exit(1)", "template", <<>>, <<>>)
    ELSE GenerateReports(MainEnded("return", "reports", <<MkDir>>, <<>>),
             selected_samples,
             [target1_file |-> files[1], target2_file |-> files[2],
              template_file |-> template_file,
              info |-> extract_plate_info(files[1].name).value,
              target1_controls |-> target1_controls,
              target2_controls |-> target2_controls,
              assay |-> assay, excel |-> excel])

\* The try statement of the parsing step: the sorted names of all samples,
\* or the exception that ends it.
AllSamples(parsed) ==
    IF parsed[1].exc # "none" THEN parsed[1]
    ELSE IF parsed[2].exc # "none" THEN parsed[2]
    ELSE get_all_samples(parsed[1].value, parsed[2].value)

\* selected_samples for the answers to the prompts
Selected(test_samples, mode_choice, choice_num) ==
    IF mode_choice = "A" THEN test_samples ELSE <<test_samples[choice_num]>>

\* From the except clause of the parsing step on.
AfterParsing(all_samples, files, assay, mode_choice, choice_num, template_file, target1_controls, target2_controls, excel) ==
    IF all_samples.exc # "none" THEN MainEnded("exit(1)", "parsing", <<>>, <<>>)
    ELSE IF mode_choice = "0" THEN MainEnded("exit(0)", "selection", <<>>, <<>>)
    ELSE Generate(Selected(TestSamples(all_samples.value), mode_choice, choice_num),
                  files, assay, template_file,
                  target1_controls, target2_controls, excel)

\* How main ended, with the names of target1_file_sorted and
\* target2_file_sorted.
Identified(files, ended) ==
    [exit |-> ended.exit, step |-> ended.step, ops |-> ended.ops,
     reports |-> ended.reports,
     target1_file_sorted |-> files[1].name,
     target2_file_sorted |-> files[2].name]

\* From "Parsing qPCR data files" on, with the files as they were sorted.
ParseAndGenerate(files, assay, mode_choice, choice_num, template_file, target1_controls, target2_controls, excel) ==
    Identified(files,
        AfterParsing(AllSamples(ParseExports(files[1], files[2])), files, assay,
                     mode_choice, choice_num, template_file,
                     target1_controls, target2_controls, excel))

\* mode_choice is 'A', 'S' or '0', an answer the prompt accepts; choice_num
\* is the number entered after 'S', one the prompt accepts.
main(target1_file, target2_file, mode_choice, choice_num, template_file, target1_controls, target2_controls, excel) ==
    ParseAndGenerate(
        SortedFiles(target1_file, target2_file, detect_assay_type(target1_file.name)),
        detect_assay_type(target1_file.name), mode_choice, choice_num,
        template_file, target1_controls, target2_controls, excel)

-----------------------------------------------------------------------------
(* report_generator.get_control_selection.  What the user types at the     *)
(* prompts is a sequence of lines, the standard input of the call.         *)

\* available_controls
AvailableControls(assay_type) ==
    IF assay_type = "RSS"
    THEN <<"A", "B", "C", "D", "E", "F", "G", "H">>
    ELSE <<"A", "B", "C", "D", "E", "F">>

\* control in available_controls: control is one of the letters of the list.
InList(control, available_controls) ==
    \E i \in DOMAIN available_controls : control = <<available_controls[i]>>

\* f"Control {control}"
ControlName(control) ==
    Str(<<"C","o","n","t","r","o","l"," ">> \o control)

\* One answer taken by the "while True" loop of a slot, st.typed being the
\* lines not yet read: input() raises EOFError where there is none; a
\* valid answer is appended and ends the loop (done), another one prints
\* "Invalid input" and leaves the loop going.  prompts lists the prompts
\* shown, by target and slot.
AskOnce(st, available_controls, target, i, control) ==
    IF st.typed = <<>>
    THEN [st EXCEPT !.exc = "EOFError",
                    !.prompts = Append(@, <<target, i + 1>>)]
    ELSE IF InList(control, available_controls)
    THEN [st EXCEPT !.typed = Tail(@),
                    !.prompts = Append(@, <<target, i + 1>>),
                    !.controls = Append(@, ControlName(control)),
                    !.done = TRUE]
    ELSE [st EXCEPT !.typed = Tail(@),
                    !.prompts = Append(@, <<target, i + 1>>)]

\* The loop of a slot taking the answer as typed: no strip(), no upper().
RECURSIVE AskControl_AsTyped(_, _, _, _)
AskControl_AsTyped(st, available_controls, target, i) ==
    LET next == AskOnce(st, available_controls, target, i,
                        IF st.typed = <<>> THEN <<>> ELSE Head(st.typed))
    IN  IF next.exc # "none" \/ next.done THEN [next EXCEPT !.done = FALSE]
        ELSE AskControl_AsTyped(next, available_controls, target, i)

\* while True: control = input(...).strip().upper() ...
RECURSIVE AskControl(_, _, _, _)
AskControl(st, available_controls, target, i) ==
    LET next == AskOnce(st, available_controls, target, i,
                        IF st.typed = <<>> THEN <<>>
                        ELSE Upper(Strip(Head(st.typed), Whitespace)))
    IN  IF next.exc # "none" \/ next.done THEN [next EXCEPT !.done = FALSE]
        ELSE AskControl(next, available_controls, target, i)

\* for i in range(3), from i on, the list starting empty.
RECURSIVE AskControls(_, _, _, _)
AskControls(st, available_controls, target, i) ==
    IF i = 3 \/ st.exc # "none" THEN st
    ELSE LET next == AskControl(st, available_controls, target, i)
         IN  IF next.exc # "none" THEN next
             ELSE AskControls(next, available_controls, target, i + 1)

\* The two loops one after the other; asked is how the first ended.
AskBoth(asked, available_controls) ==
    LET second == AskControls([asked EXCEPT !.controls = <<>>],
                              available_controls, 2, 0)
    IN  IF second.exc # "none"
        THEN [exc |-> second.exc, info |-> Info("EOF when reading a line", NoPath),
              prompts |-> second.prompts]
        ELSE [exc |-> "none", value |-> <<asked.controls, second.controls>>,
              prompts |-> second.prompts]

\* The target names are printed only; typed is what the user enters.
get_control_selection(target1_name, target2_name, assay_type, typed) ==
    AskBoth(AskControls([typed |-> typed, controls |-> <<>>, prompts |-> <<>>,
                         exc |-> "none", done |-> FALSE],
                        AvailableControls(assay_type), 1, 0),
            AvailableControls(assay_type))

-----------------------------------------------------------------------------
(* The worksheet writer as a state machine: the sheet is that of a copy of *)
(* the template, and the measurements are those the normalizer made of the *)
(* Cq cells of a sample's rows.                                            *)

\* The cells of the sheet the model keeps: rows 1 to 39 of columns A, B, C,
\* H, I and J.
SheetCells == (1..39) \X {1, 2, 3, 8, 9, 10}

\* The template's sheet: empty, or with a text in every cell.
Templates ==
    { [c \in SheetCells |-> EmptyCell],
      [c \in SheetCells |-> Value(Str(<<"t">>))] }

\* The Cq cells of a sample per target, made of one list of cells so that
\* the four lists differ.
RawData(name, cells) ==
    [sample_name |-> Str(name),
     target1_m  |-> cells,
     target1_um |-> Reverse(cells),
     target2_m  |-> ButFirst(cells),
     target2_um |-> ButLast(cells)]

\* [safe_float_convert(cq) for cq in cells]
Normalized(cells) ==
    [i \in DOMAIN cells |-> safe_float_convert(Str(cells[i])).value]

\* The dictionary of measurements the populate functions are written for.
SampleData(raw) ==
    [sample_name |-> raw.sample_name,
     target1_m  |-> Normalized(raw.target1_m),
     target1_um |-> Normalized(raw.target1_um),
     target2_m  |-> Normalized(raw.target2_m),
     target2_um |-> Normalized(raw.target2_um)]

\* The names of the three controls of a target.
ControlNames1 == << <<"C","o","n","t","r","o","l"," ","C">>,
                    <<"C","o","n","t","r","o","l"," ","D">>,
                    <<"C","o","n","t","r","o","l"," ","F">> >>
ControlNames2 == << <<"C","o","n","t","r","o","l"," ","A">>,
                    <<"C","o","n","t","r","o","l"," ","B">>,
                    <<"C","o","n","t","r","o","l"," ","E">> >>

\* The Cq cells of three controls, made of one list of cells.
RawControls(names, cells) ==
    << RawData(names[1], cells),
       RawData(names[2], Reverse(cells)),
       RawData(names[3], ButFirst(cells)) >>

NoWrite == [fn |-> "none", raw |-> <<>>, args |-> <<>>]

WriteIdle ==
    /\ wpc = "idle"
    /\ template = [c \in SheetCells |-> EmptyCell]
    /\ ws = [c \in SheetCells |-> EmptyCell]
    /\ wcall = NoWrite
    /\ write_out = Pending

\* generate_report_win32: populate_stepone_data_win32(ws_stepone,
\* sample_data, target1_start_row=6, target2_start_row=24) on the sheet of
\* the template's copy.
StepOneCall ==
    /\ wpc = "idle"
    /\ NormAtRest /\ ParseAtRest /\ AggAtRest /\ ReportAtRest
    /\ \E t \in Templates, cells \in CqCellLists :
          /\ template' = t
          /\ ws' = t
          /\ wcall' = [fn |-> "populate_stepone_data_win32",
                       raw |-> <<RawData(<<"X">>, cells)>>,
                       args |-> <<SampleData(RawData(<<"X">>, cells)), 6, 24>>]
    /\ wpc' = "running"
    /\ write_out' = Pending
    /\ UNCHANGED <<normVars, parseVars, aggVars, reportVars>>

\* generate_report_win32: populate_hct116_controls_win32(ws_stepone,
\* hct116_data, target1_start_row=9, target2_start_row=27)
Hct116Call ==
    /\ wpc = "idle"
    /\ NormAtRest /\ ParseAtRest /\ AggAtRest /\ ReportAtRest
    /\ \E t \in Templates, cells \in CqCellLists :
          /\ template' = t
          /\ ws' = t
          /\ wcall' = [fn |-> "populate_hct116_controls_win32",
                       raw |-> <<RawData(<<"H","C","T","1","1","6">>, cells)>>,
                       args |-> <<SampleData(RawData(<<"H","C","T","1","1","6">>,
                                                     cells)), 9, 27>>]
    /\ wpc' = "running"
    /\ write_out' = Pending
    /\ UNCHANGED <<normVars, parseVars, aggVars, reportVars>>

\* generate_report_win32: populate_controls_win32(ws_stepone,
\* target1_controls_data, target2_controls_data, target1_start_row=12,
\* target2_start_row=30)
ControlsCall ==
    /\ wpc = "idle"
    /\ NormAtRest /\ ParseAtRest /\ AggAtRest /\ ReportAtRest
    /\ \E t \in Templates, cells \in CqCellLists :
          /\ template' = t
          /\ ws' = t
          /\ wcall' =
               [fn |-> "populate_controls_win32",
                raw |-> <<RawControls(ControlNames1, cells),
                          RawControls(ControlNames2, Reverse(cells))>>,
                args |->
                  << [i \in 1..3 |->
                        SampleData(RawControls(ControlNames1, cells)[i])],
                     [i \in 1..3 |->
                        SampleData(RawControls(ControlNames2, Reverse(cells))[i])],
                     12, 30 >>]
    /\ wpc' = "running"
    /\ write_out' = Pending
    /\ UNCHANGED <<normVars, parseVars, aggVars, reportVars>>

\* What the called function leaves: the sheet and the exception, if any.
WriteResult(c, sheet) ==
    CASE c.fn = "populate_stepone_data_win32" ->
           populate_stepone_data_win32(sheet, c.args[1], c.args[2], c.args[3])
      [] c.fn = "populate_hct116_controls_win32" ->
           populate_hct116_controls_win32(sheet, c.args[1], c.args[2], c.args[3])
      [] OTHER ->
           populate_controls_win32(sheet, c.args[1], c.args[2],
                                   c.args[3], c.args[4])

\* The called function runs to its return or to the exception it raises.
WriteReturn ==
    /\ wpc = "running"
    /\ ws' = WriteResult(wcall, ws).ws
    /\ write_out' =
          IF WriteResult(wcall, ws).exc = "none" THEN Returned(None)
          ELSE Raised(WriteResult(wcall, ws).exc, Info("missing key", NoPath))
    /\ wpc' = "returned"
    /\ UNCHANGED <<template, wcall, normVars, parseVars, aggVars, reportVars>>

\* The workbook is saved and closed.
WriteDone ==
    /\ wpc = "returned"
    /\ wpc' = "idle"
    /\ template' = [c \in SheetCells |-> EmptyCell]
    /\ ws' = [c \in SheetCells |-> EmptyCell]
    /\ wcall' = NoWrite
    /\ write_out' = Pending
    /\ UNCHANGED <<normVars, parseVars, aggVars, reportVars>>

-----------------------------------------------------------------------------
(* The report runs as a state machine: callers of extract_plate_info with  *)
(* the name of an export.                                                  *)

\* The parts file names are made of: what stands before the key word, the
\* key word, the plate number, a separator, the date, a separator, the
\* initials, and the rest.
NameParts ==
    << { <<>>, <<"B","W","S","_","Q","S","6","_">>, METHYLATION_ \o <<"1","2","_">> },
       { METHYLATION_, <<"M","E","T","H","Y","L","_">>,
         <<"m","e","t","h","y","l","a","t","i","o","n","_">> },
       { <<"2","2","2","1">>, <<"5","6","2">>, <<"1","2">>,
         <<"1","2","3","4","5">>, <<>> },
       { <<"_">>, <<"-">> },
       { <<"1","1","1","1","2","5">>, <<"1","1","1","1","2">>,
         <<"1","1","1","1","2","5","6">> },
       { <<"_">>, <<>> },
       { <<"A","N">>, <<"a","n">>, <<"A","1">>, <<>> },
       { <<>>, <<"_","I","C","R","1",".","c","s","v">> } >>

FileNames ==
    { a \o b \o c \o d \o e \o f \o g \o h :
        a \in NameParts[1], b \in NameParts[2], c \in NameParts[3],
        d \in NameParts[4], e \in NameParts[5], f \in NameParts[6],
        g \in NameParts[7], h \in NameParts[8] }

NoRun == [fn |-> "none", args |-> <<>>]

ReportIdle ==
    /\ rpc = "idle"
    /\ rcall = NoRun
    /\ disk = <<>>
    /\ report_out = Pending

\* main and generate_report_win32: extract_plate_info(target1_file.name)
PlateInfoCall ==
    /\ rpc = "idle"
    /\ NormAtRest /\ ParseAtRest /\ AggAtRest /\ WriteAtRest
    /\ \E name \in FileNames :
          rcall' = [fn |-> "extract_plate_info", args |-> <<name>>]
    /\ rpc' = "running"
    /\ UNCHANGED <<disk, report_out>>
    /\ UNCHANGED <<normVars, parseVars, aggVars, writeVars>>

\* '"a","b"' for the fields a and b: a line as the instrument writes it.
RECURSIVE CsvLine(_)
CsvLine(fields) ==
    IF fields = <<>> THEN <<>>
    ELSE <<"\"">> \o Head(fields) \o <<"\"">>
         \o (IF Len(fields) > 1 THEN <<",">> ELSE <<>>) \o CsvLine(Tail(fields))

\* '"Well","Well Position","Sample","Target","Cq"'
ReportHeaderLine ==
    HeaderSignature \o <<",">>
    \o CsvLine(<<K_Sample.chars, K_Target.chars, K_Cq.chars>>)

\* The exports: one with a comment above the header, one that starts with
\* the header and holds the samples 'Y 1' and 'Y_1', and one that has no
\* header line.
Exports ==
    { <<CommentLine, ReportHeaderLine,
        CsvLine(<<<<"1">>, <<"A","1">>, <<"X">>, ICR1_M.chars, <<"2","0",".","1">>>>),
        CsvLine(<<<<"2">>, <<"A","2">>, <<"N","T","C">>, ICR1_M.chars, <<>>>>)>>,
      <<ReportHeaderLine,
        CsvLine(<<<<"1">>, <<"A","1">>, <<"Y"," ","1">>, ICR2_M.chars, <<"3","0">>>>),
        CsvLine(<<<<"2">>, <<"A","2">>, <<"Y","_","1">>, ICR2_UM.chars, <<"3","1">>>>)>>,
      <<CommentLine,
        CsvLine(<<<<"1">>, <<"A","1">>, <<"X">>, ICR1_M.chars, <<"2","0",".","1">>>>)>> }

\* 'BWS_METHYLATION_2221_111125_AN_ICR1.csv' and so on.
NameICR1 ==
    <<"B","W","S","_">> \o METHYLATION_
    \o <<"2","2","2","1","_","1","1","1","1","2","5","_","A","N","_","I","C","R","1",".","c","s","v">>
NameICR2 ==
    <<"B","W","S","_">> \o METHYLATION_
    \o <<"2","2","2","1","_","1","1","1","1","2","5","_","A","N","_","I","C","R","2",".","c","s","v">>
NamePairs ==
    { <<NameICR1, NameICR2>>, <<NameICR2, NameICR1>>,
      <<<<"r","s","s","_","g","r","b",".","c","s","v">>,
        <<"r","s","s","_","p","e","g","1",".","c","s","v">>>>,
      <<<<"a",".","c","s","v">>, <<"b",".","c","s","v">>>>,
      <<<<"B","W","S",".","c","s","v">>, NameICR1>> }

File(name, ls) == [name |-> name, lines |-> ls]

\* The template file: missing, or there with its sheet.
TemplateFiles ==
    { [exists |-> FALSE, sheet |-> <<>>],
      [exists |-> TRUE, sheet |-> [c \in SheetCells |-> EmptyCell]] }

\* What get_control_selection returns: three controls per target.
Controls1 == [i \in 1..3 |-> Str(ControlNames1[i])]
Controls2 == [i \in 1..3 |-> Str(ControlNames2[i])]

\* Excel in working order, or not to be started.
ExcelRuns == {"ok", Dispatch}

\* Excel in working order, or raising at one of its calls.
ExcelFailures ==
    { "ok", Dispatch, WorkbooksOpen, FinalSheet, Activate, Macro1, Macro2,
      Sheet1, WbSaveAs }

\* The test samples main lists for the two files; none where it exits
\* before.
TestsOf(all_samples) ==
    IF all_samples.exc # "none" THEN <<>> ELSE TestSamples(all_samples.value)

ParsedSorted(files) == ParseExports(files[1], files[2])

Offered(target1_file, target2_file) ==
    TestsOf(AllSamples(ParsedSorted(
        SortedFiles(target1_file, target2_file,
                    detect_assay_type(target1_file.name)))))

\* main's loop calls generate_report_win32, and so may any caller.
GenerateCall ==
    /\ rpc = "idle"
    /\ NormAtRest /\ ParseAtRest /\ AggAtRest /\ WriteAtRest
    /\ \E ls1 \in Exports, ls2 \in Exports, template_file \in TemplateFiles,
          sample_name \in {SampleX, SampleZ}, given \in BOOLEAN,
          tags \in TagPairs, excel \in ExcelRuns :
          rcall' = [fn |-> "generate_report_win32",
                    args |-> [target1_file |-> File(NameICR1, ls1),
                              target2_file |-> File(NameICR2, ls2),
                              template_file |-> template_file,
                              output_file |-> <<"o">>,
                              sample_name |-> sample_name,
                              target1_controls |-> IF given THEN Controls1 ELSE <<>>,
                              target2_controls |-> IF given THEN Controls2 ELSE <<>>,
                              target1_name |-> tags[1],
                              target2_name |-> tags[2],
                              excel |-> excel]]
    /\ rpc' = "running"
    /\ UNCHANGED <<disk, report_out>>
    /\ UNCHANGED <<normVars, parseVars, aggVars, writeVars>>

\* generate_report_win32 called with two exports that have their header
\* line, Excel failing at any one of its calls or at none.
GenerateExcelCall ==
    /\ rpc = "idle"
    /\ NormAtRest /\ ParseAtRest /\ AggAtRest /\ WriteAtRest
    /\ \E ls1 \in Exports, ls2 \in Exports, template_file \in TemplateFiles,
          sample_name \in {SampleX, SampleZ}, given \in BOOLEAN,
          tags \in TagPairs, excel \in ExcelFailures :
          /\ \E i \in DOMAIN ls1 : StartsWith(ls1[i], HeaderSignature)
          /\ \E i \in DOMAIN ls2 : StartsWith(ls2[i], HeaderSignature)
          /\ rcall' = [fn |-> "generate_report_win32",
                       args |-> [target1_file |-> File(NameICR1, ls1),
                                 target2_file |-> File(NameICR2, ls2),
                                 template_file |-> template_file,
                                 output_file |-> <<"o">>,
                                 sample_name |-> sample_name,
                                 target1_controls |-> IF given THEN Controls1 ELSE <<>>,
                                 target2_controls |-> IF given THEN Controls2 ELSE <<>>,
                                 target1_name |-> tags[1],
                                 target2_name |-> tags[2],
                                 excel |-> excel]]
    /\ rpc' = "running"
    /\ UNCHANGED <<disk, report_out>>
    /\ UNCHANGED <<normVars, parseVars, aggVars, writeVars>>

\* The program is started and two files are selected; the answers to the
\* prompts are those the prompts accept.
MainCall ==
    /\ rpc = "idle"
    /\ NormAtRest /\ ParseAtRest /\ AggAtRest /\ WriteAtRest
    /\ \E names \in NamePairs, ls1 \in Exports, ls2 \in Exports,
          template_file \in TemplateFiles, excel \in ExcelRuns,
          mode_choice \in {"A", "S", "0"}, choice_num \in 1..2 :
          /\ mode_choice = "S"
             => choice_num <= Len(Offered(File(names[1], ls1), File(names[2], ls2)))
          /\ mode_choice # "S" => choice_num = 1
          /\ rcall' = [fn |-> "main",
                       args |-> [target1_file |-> File(names[1], ls1),
                                 target2_file |-> File(names[2], ls2),
                                 mode_choice |-> mode_choice,
                                 choice_num |-> choice_num,
                                 template_file |-> template_file,
                                 target1_controls |-> Controls1,
                                 target2_controls |-> Controls2,
                                 excel |-> excel]]
    /\ rpc' = "running"
    /\ UNCHANGED <<disk, report_out>>
    /\ UNCHANGED <<normVars, parseVars, aggVars, writeVars>>

\* The lines a user may type at a prompt for a control: a letter in lower
\* case after a blank, a letter that only RSS has followed by a blank, and
\* a letter that no assay has.
MaxEntries == 7

TypedLines == { <<" ", "a">>, <<"g", " ">>, <<"x">> }

\* main: get_control_selection(target1_name, target2_name, assay_type),
\* and the user typing up to MaxEntries lines.
ControlSelectionCall ==
    /\ rpc = "idle"
    /\ NormAtRest /\ ParseAtRest /\ AggAtRest /\ WriteAtRest
    /\ \E assay_type \in {"BWS", "RSS"}, typed \in SeqsUpTo(TypedLines, MaxEntries) :
          rcall' = [fn |-> "get_control_selection",
                    args |-> [assay_type |-> assay_type, typed |-> typed]]
    /\ rpc' = "running"
    /\ UNCHANGED <<disk, report_out>>
    /\ UNCHANGED <<normVars, parseVars, aggVars, writeVars>>

\* main's end and its file operations.
OfMain(ended) == Ended(ended, ended.ops)

\* How the called function ends and what it did to the files.
ReportResult(c) ==
    CASE c.fn = "extract_plate_info" ->
           Ended(extract_plate_info(c.args[1]), <<>>)
      [] c.fn = "get_control_selection" ->
           Ended(get_control_selection(
                     IF c.args.assay_type = "RSS" THEN Str(<<"P","E","G","1">>)
                     ELSE Str(<<"I","C","R","1">>),
                     IF c.args.assay_type = "RSS" THEN Str(<<"G","R","B">>)
                     ELSE Str(<<"I","C","R","2">>),
                     c.args.assay_type, c.args.typed), <<>>)
      [] c.fn = "generate_report_win32" ->
           generate_report_win32(c.args.target1_file, c.args.target2_file,
               c.args.template_file, c.args.output_file, c.args.sample_name,
               c.args.target1_controls, c.args.target2_controls,
               c.args.target1_name, c.args.target2_name, c.args.excel)
      [] OTHER ->
           OfMain(main(c.args.target1_file, c.args.target2_file,
                       c.args.mode_choice, c.args.choice_num,
                       c.args.template_file, c.args.target1_controls,
                       c.args.target2_controls, c.args.excel))

\* The called function runs to its return, to the exception it raises or to
\* sys.exit.
ReportReturn ==
    /\ rpc = "running"
    /\ \E ended \in {ReportResult(rcall)} :
          /\ report_out' = ended.out
          /\ disk' = ended.ops
    /\ rpc' = "returned"
    /\ UNCHANGED rcall
    /\ UNCHANGED <<normVars, parseVars, aggVars, writeVars>>

\* The caller is done with the result; the next run starts in an empty
\* output directory.
ReportDone ==
    /\ rpc = "returned"
    /\ rpc' = "idle"
    /\ rcall' = NoRun
    /\ report_out' = Pending
    /\ disk' = <<>>
    /\ UNCHANGED <<normVars, parseVars, aggVars, writeVars>>

-----------------------------------------------------------------------------
(* Specifications *)

\* Every component at rest, no rows loaded.
Init == NormIdle /\ ParseIdle /\ AggIdle /\ WriteIdle /\ ReportIdle

\* The normalizer under any sequence of calls.
NextNorm == NormCall \/ NormReturn \/ NormDone
SpecNorm == Init /\ [][NextNorm]_vars

\* The parser under any sequence of calls.
NextParse == ParseCall \/ ParseReturn \/ ParseDone
SpecParse == Init /\ [][NextParse]_vars

\* The aggregator over any pair of row lists, under any sequence of calls.
NextAgg ==
    \/ LoadRows
    \/ LoadReplicates
    \/ ExtractCall
    \/ ReportExtractCall
    \/ GetAllSamplesCall
    \/ AggReturn
    \/ AggDone
SpecAgg == Init /\ [][NextAgg]_vars

\* The aggregator called again and again by a caller that keeps the
\* results.
NextHold ==
    \/ LoadFewRows
    \/ ExtractCall
    \/ GetAllSamplesCall
    \/ AggReturn
    \/ KeepResult
SpecHold == Init /\ [][NextHold]_vars

\* The parser called again and again by a caller that keeps the results and
\* changes them.
NextKeep == KeepCall \/ ParseReturn \/ KeepParsed \/ ChangeKept
SpecKeep == Init /\ [][NextKeep]_vars

\* The worksheet writer under any sequence of calls.
NextWrite ==
    \/ StepOneCall
    \/ Hct116Call
    \/ ControlsCall
    \/ WriteReturn
    \/ WriteDone
SpecWrite == Init /\ [][NextWrite]_vars

\* extract_plate_info under any sequence of calls.
NextPlate == PlateInfoCall \/ ReportReturn \/ ReportDone
SpecPlate == Init /\ [][NextPlate]_vars

\* generate_report_win32 and main under any sequence of runs.
NextControls == ControlSelectionCall \/ ReportReturn \/ ReportDone
SpecControls == Init /\ [][NextControls]_vars

NextSteps == GenerateExcelCall \/ ReportReturn \/ ReportDone
SpecSteps == Init /\ [][NextSteps]_vars

NextReport == GenerateCall \/ MainCall \/ ReportReturn \/ ReportDone
SpecReport == Init /\ [][NextReport]_vars

\* The components in one program.
Next == NextNorm \/ NextParse \/ NextAgg \/ NextHold \/ NextWrite \/ NextPlate
        \/ NextReport \/ NextKeep \/ NextControls \/ NextSteps
Spec == Init /\ [][Next]_vars

-----------------------------------------------------------------------------
(* The parser: properties of SpecParse *)

\* The file has a line that starts with the header signature.
HasHeader(ls) == \E i \in DOMAIN ls : StartsWith(ls[i], HeaderSignature)

\* The lines after the first line that starts with the header signature.
TableLines(ls) ==
    LET h == CHOOSE i \in DOMAIN ls :
                 /\ StartsWith(ls[i], HeaderSignature)
                 /\ \A j \in 1..(i - 1) : ~StartsWith(ls[j], HeaderSignature)
    IN  SubSeq(ls, h + 1, Len(ls))

\* The fields written on a data line, and the row they make under the header
\* names Well, Well Position and Cq.
FieldsOf(line) ==
    IF line = DataLine1 THEN <<<<"1">>, <<"A","1">>, <<"2","0",".","1">>>>
    ELSE <<<<"2">>, <<"A","2">>, <<>>>>

RowOf(line) ==
    <<[key |-> Str(<<"W","e","l","l">>), val |-> Str(FieldsOf(line)[1])],
      [key |-> Str(<<"W","e","l","l"," ","P","o","s","i","t","i","o","n">>),
       val |-> Str(FieldsOf(line)[2])],
      [key |-> Str(<<"C","q">>), val |-> Str(FieldsOf(line)[3])]>>

IsDataLine(line) == line \in DataLines

\* One row per data line of the table, in the order of the lines.
RowsOfTable(ls) ==
    [k \in DOMAIN SelectSeq(TableLines(ls), IsDataLine) |->
        RowOf(SelectSeq(TableLines(ls), IsDataLine)[k])]

\* C1: of a file whose table holds data lines (and possibly empty lines),
\* parse_qpcr_csv returns one row per data line after the first header line,
\* in file order, each keyed by the header's column names; nothing of the
\* lines before the header is in the result.
C1_OneRowPerDataLine ==
    (/\ ppc = "returned"
     /\ HasHeader(lines)
     /\ \A i \in DOMAIN TableLines(lines) :
            TableLines(lines)[i] \in DataLines \cup {EmptyLine})
    => parse_out = Returned(RowsOfTable(lines))

\* A file with a preamble (a line of it the signature, indented), the
\* header and two data lines or more has been parsed to as many rows.
C1_Witness ==
    /\ ppc = "returned"
    /\ HasHeader(lines)
    /\ \E i \in DOMAIN lines : lines[i] = IndentedSignature
    /\ Len(TableLines(lines)) >= 2
    /\ Len(lines) >= Len(TableLines(lines)) + 3
    /\ \A i \in DOMAIN TableLines(lines) : TableLines(lines)[i] \in DataLines
    /\ parse_out.exc = "none"
    /\ Len(parse_out.value) = Len(TableLines(lines))

\* C2: of a file with no line that starts with the header signature,
\* parse_qpcr_csv returns no rows: it raises the header-not-found error
\* (a ValueError), which carries the path of the file.
C2_NoHeaderRaises ==
    (ppc = "returned" /\ ~HasHeader(lines))
    => /\ parse_out.exc = "ValueError"
       /\ parse_out.info.path = file_path
       /\ "value" \notin DOMAIN parse_out

\* A file of several lines, one of them the signature indented, none a
\* header, has been refused.
C2_Witness ==
    /\ ppc = "returned"
    /\ ~HasHeader(lines)
    /\ Len(lines) >= 2
    /\ \E i \in DOMAIN lines : lines[i] = IndentedSignature
    /\ \E i \in DOMAIN lines : lines[i] \in DataLines
    /\ parse_out.exc = "ValueError"
    /\ parse_out.info.path = file_path

\* C3: a line of the table that is blank (empty or whitespace only) or has
\* another number of fields than the header gives no row and no error: the
\* rows returned are those of the other lines.
C3_OddLinesDropped ==
    (/\ ppc = "returned"
     /\ HasHeader(lines)
     /\ \E i \in DOMAIN TableLines(lines) : TableLines(lines)[i] \in OddLines)
    => parse_out = Returned(RowsOfTable(lines))

-----------------------------------------------------------------------------
(* The aggregator: properties of SpecAgg *)

\* The call that returned is extract_sample_data(icr1_data, icr2_data, name).
ExtractReturned ==
    /\ apc = "returned"
    /\ call.fn = "extract_sample_data"
    /\ Len(call.args) = 1

\* The call that returned is the one of generate_report_win32, with the two
\* target names after the sample name.
ReportExtractReturned ==
    /\ apc = "returned"
    /\ call.fn = "extract_sample_data"
    /\ Len(call.args) = 3

SampleOf(row) == DictGet(row, K_Sample)
TargetOf(row) == DictGet(row, K_Target)
Measure(row) == safe_float_convert(DictGet(row, K_Cq)).value

\* The measurements of the rows of data with that sample and that target, in
\* the order of the rows.
Expect(data, name, target) ==
    LET Picked(row) == SampleOf(row) = name /\ TargetOf(row) = target
    IN  [k \in DOMAIN SelectSeq(data, Picked) |->
            Measure(SelectSeq(data, Picked)[k])]

\* The target name made of a tag and a suffix: 'PEG1' and '_M' make 'PEG1_M'.
Tagged(tag, suffix) == Str(tag.chars \o suffix)

\* C4: extract_sample_data takes the two target tags as parameters and
\* collects, for any pair of tags, the rows of target <tag>_M and <tag>_UM
\* of either file.
C4_AnyTagPair ==
    ReportExtractReturned
    => /\ agg_out.exc = "none"
       /\ agg_out.value.icr1_m
            = Expect(icr1_data, call.args[1], Tagged(call.args[2], <<"_","M">>))
       /\ agg_out.value.icr1_um
            = Expect(icr1_data, call.args[1], Tagged(call.args[2], <<"_","U","M">>))
       /\ agg_out.value.icr2_m
            = Expect(icr2_data, call.args[1], Tagged(call.args[3], <<"_","M">>))
       /\ agg_out.value.icr2_um
            = Expect(icr2_data, call.args[1], Tagged(call.args[3], <<"_","U","M">>))

\* The rows of data whose Sample is exactly name.
RowsOfSample(data, name) == { i \in DOMAIN data : SampleOf(data[i]) = name }

\* Every value of the two sequences of a file is the measurement of a row
\* of that file with exactly that Sample, and there are no more values than
\* such rows.
FromSample(m, um, data, name) ==
    /\ Len(m) + Len(um) <= Cardinality(RowsOfSample(data, name))
    /\ \A k \in DOMAIN m :
          \E i \in RowsOfSample(data, name) : m[k] = Measure(data[i])
    /\ \A k \in DOMAIN um :
          \E i \in RowsOfSample(data, name) : um[k] = Measure(data[i])

\* C5: a row counts for a sample only if its Sample field is that very
\* string: a name that differs in case or by a space gives nothing.
C5_ExactSampleMatch ==
    ExtractReturned
    => /\ agg_out.exc = "none"
       /\ FromSample(agg_out.value.icr1_m, agg_out.value.icr1_um,
                     icr1_data, call.args[1])
       /\ FromSample(agg_out.value.icr2_m, agg_out.value.icr2_um,
                     icr2_data, call.args[1])

\* Sample 'X' has been extracted from files that hold a row of 'X', a row
\* of 'x' and a row of 'X ': only the row of 'X' is in the result.
C5_Witness ==
    /\ ExtractReturned
    /\ call.args[1] = SampleX
    /\ \E i \in DOMAIN icr1_data :
          SampleOf(icr1_data[i]) = Str(<<"x">>) /\ TargetOf(icr1_data[i]) = ICR1_M
    /\ \E i \in DOMAIN icr2_data :
          SampleOf(icr2_data[i]) = Str(<<"X"," ">>) /\ TargetOf(icr2_data[i]) = ICR2_M
    /\ agg_out.exc = "none"
    /\ Len(agg_out.value.icr1_m) = 1
    /\ agg_out.value.icr2_m = <<>>

\* C6: each of the four sequences holds the measurements of its rows in the
\* order in which the rows stand in the file.
C6_FileOrderKept ==
    ExtractReturned
    => /\ agg_out.exc = "none"
       /\ agg_out.value.icr1_m = Expect(icr1_data, call.args[1], ICR1_M)
       /\ agg_out.value.icr1_um = Expect(icr1_data, call.args[1], ICR1_UM)
       /\ agg_out.value.icr2_m = Expect(icr2_data, call.args[1], ICR2_M)
       /\ agg_out.value.icr2_um = Expect(icr2_data, call.args[1], ICR2_UM)

\* Three rows of the first file, the first and the last of sample 'X' and
\* target ICR1_M with different measurements: the two stand in the result
\* as in the file.
C6_Witness ==
    /\ ExtractReturned
    /\ call.args[1] = SampleX
    /\ Len(icr1_data) = 3
    /\ SampleOf(icr1_data[2]) # SampleX
    /\ agg_out.exc = "none"
    /\ Len(agg_out.value.icr1_m) = 2
    /\ agg_out.value.icr1_m[1] # agg_out.value.icr1_m[2]
    /\ agg_out.value.icr1_m[1] = Measure(icr1_data[1])
    /\ agg_out.value.icr1_m[2] = Measure(icr1_data[3])

\* C7: for a sample that no row of either file has, the four sequences are
\* empty and nothing is raised; so too when both files hold no rows.
C7_UnknownSampleEmpty ==
    (/\ ExtractReturned
     /\ RowsOfSample(icr1_data, call.args[1]) = {}
     /\ RowsOfSample(icr2_data, call.args[1]) = {})
    => /\ agg_out.exc = "none"
       /\ agg_out.value.icr1_m = <<>>
       /\ agg_out.value.icr1_um = <<>>
       /\ agg_out.value.icr2_m = <<>>
       /\ agg_out.value.icr2_um = <<>>

\* Sample 'Z' has been extracted from two files that hold rows, none of 'Z'.
C7_Witness ==
    /\ ExtractReturned
    /\ call.args[1] = SampleZ
    /\ icr1_data # <<>>
    /\ icr2_data # <<>>
    /\ agg_out.exc = "none"
    /\ agg_out.value.icr1_m = <<>>
    /\ agg_out.value.icr2_um = <<>>

\* The orders in which the rows of a file can stand.
Reorderings(data) ==
    { [i \in DOMAIN data |-> data[p[i]]] : p \in Permutations(DOMAIN data) }

\* C8: get_all_samples returns the Sample values of the two files, each
\* once, in ascending order; the result is the same for any order of the
\* rows and with the two files exchanged.
C8_SamplesSortedOnce ==
    (apc = "returned" /\ call.fn = "get_all_samples")
    => /\ agg_out.exc = "none"
       /\ Range(agg_out.value)
            = { SampleOf(icr1_data[i]) : i \in DOMAIN icr1_data }
              \cup { SampleOf(icr2_data[i]) : i \in DOMAIN icr2_data }
       /\ \A i, j \in DOMAIN agg_out.value :
             i < j => StrLess(agg_out.value[i], agg_out.value[j])
       /\ \A d1 \in Reorderings(icr1_data), d2 \in Reorderings(icr2_data) :
             get_all_samples(d1, d2) = agg_out
       /\ get_all_samples(icr2_data, icr1_data) = agg_out

\* The samples have been listed of files in which 'X' stands in both, twice
\* in one, and after a name that sorts later: three names or more come out.
C8_Witness ==
    /\ apc = "returned"
    /\ call.fn = "get_all_samples"
    /\ Len(icr1_data) >= 2
    /\ SampleOf(icr1_data[1]) = Str(<<"x">>)
    /\ SampleOf(icr1_data[2]) = SampleX
    /\ \E i \in DOMAIN icr2_data : SampleOf(icr2_data[i]) = SampleX
    /\ agg_out.exc = "none"
    /\ agg_out.value = <<SampleX, Str(<<"x">>)>>

-----------------------------------------------------------------------------
(* The normalizer: properties of SpecNorm *)

\* No character of s is other than whitespace.
Blank(s) == \A i \in DOMAIN s : s[i] \in Whitespace

\* C9: of the empty string and of a string of whitespace only,
\* safe_float_convert returns None and raises nothing.
C9_BlankIsAbsent ==
    (npc = "returned" /\ Blank(cq_value.chars)) => cq_out = Returned(None)

\* A string of two whitespace characters or more has been converted.
C9_Witness ==
    /\ npc = "returned"
    /\ Len(cq_value.chars) >= 2
    /\ Blank(cq_value.chars)
    /\ cq_out = Returned(None)

\* C10: of 'undetermined' in any spelling of upper and lower case,
\* safe_float_convert returns 40.0.
C10_UndeterminedIsCeiling ==
    (npc = "returned" /\ Lower(cq_value.chars) = Lower(UNDETERMINED))
    => cq_out = Returned(Float(4, 1))

\* A spelling other than 'Undetermined', 'UNDETERMINED' and 'undetermined'
\* has been converted to 40.0.
C10_Witness ==
    /\ npc = "returned"
    /\ Lower(cq_value.chars) = Lower(UNDETERMINED)
    /\ cq_value.chars # UNDETERMINED
    /\ cq_value.chars # Lower(UNDETERMINED)
    /\ cq_value.chars[1] = "u"
    /\ cq_value.chars[2] = "N"
    /\ cq_out = Returned(Float(4, 1))

\* s is a decimal numeral: an optional sign, digits, and optionally a point
\* and the digits of a fraction. The digits before the point or those after
\* it may be wanting ('.5', '5.'), not both.
AllDigits(s) == \A i \in DOMAIN s : IsDigit(s[i])

UnsignedNumeral(s) ==
    \/ s # <<>> /\ AllDigits(s)
    \/ \E k \in DOMAIN s :
          /\ s[k] = "."
          /\ Len(s) >= 2
          /\ AllDigits(SubSeq(s, 1, k - 1))
          /\ AllDigits(SubSeq(s, k + 1, Len(s)))

DecimalNumeral(s) ==
    \/ UnsignedNumeral(s)
    \/ s # <<>> /\ Head(s) \in {"+", "-"} /\ UnsignedNumeral(Tail(s))

\* C11: of a non-empty string that is neither 'undetermined' in some
\* spelling of case nor a decimal numeral ('abc', the token with spaces
\* around it), safe_float_convert returns None and raises nothing.
C11_UnparseableIsAbsent ==
    (/\ npc = "returned"
     /\ cq_value.chars # <<>>
     /\ Lower(cq_value.chars) # Lower(UNDETERMINED)
     /\ ~DecimalNumeral(cq_value.chars))
    => cq_out = Returned(None)

\* C20: when safe_float_convert returns a number other than the ceiling of
\* 'undetermined', its argument was a decimal numeral and the number is
\* finite: 'inf', 'nan', exponent forms, digits with underscores or with
\* spaces around them give no number.
C20_OnlyDecimalNumerals ==
    (/\ npc = "returned"
     /\ cq_out.exc = "none"
     /\ cq_out.value # None
     /\ cq_out.value # Float(4, 1))
    => /\ DecimalNumeral(cq_value.chars)
       /\ cq_out.value.kind = "float"

-----------------------------------------------------------------------------
(* The worksheet writer: properties of SpecWrite *)

\* The cells that are to take the measurements of one target of one sample:
\* three rows from start on, column C for the methylated and column J for
\* the unmethylated probe, each with the Cq cells it is fed from and the
\* place of its cell among them.
SlotsOf(raw, start, m_key, um_key) ==
    { [row |-> start + i, col |-> 3, cells |-> raw[m_key], idx |-> i + 1] :
        i \in 0..2 }
    \cup
    { [row |-> start + i, col |-> 10, cells |-> raw[um_key], idx |-> i + 1] :
        i \in 0..2 }

SlotsOfSample(raw, start1, start2) ==
    SlotsOf(raw, start1, "target1_m", "target1_um")
    \cup SlotsOf(raw, start2, "target2_m", "target2_um")

\* The measurement cells of the call made: rows 6-8 and 24-26 for the
\* sample, 9-11 and 27-29 for HCT116, 12-20 and 30-38 for the controls.
CqSlots ==
    CASE wcall.fn = "populate_stepone_data_win32" ->
           SlotsOfSample(wcall.raw[1], 6, 24)
      [] wcall.fn = "populate_hct116_controls_win32" ->
           SlotsOfSample(wcall.raw[1], 9, 27)
      [] wcall.fn = "populate_controls_win32" ->
           UNION { SlotsOf(wcall.raw[1][c + 1], 12 + 3 * c,
                           "target1_m", "target1_um")
                   \cup SlotsOf(wcall.raw[2][c + 1], 30 + 3 * c,
                                "target2_m", "target2_um") : c \in 0..2 }
      [] OTHER -> {}

\* The slot has no measurement: the sample has no such row, or the Cq cell
\* of the row is empty.
AbsentAt(slot) ==
    \/ slot.idx > Len(slot.cells)
    \/ slot.cells[slot.idx] = <<>>

\* C12: an absent measurement is nowhere made zero: the cell of an absent
\* measurement is left as the template has it, and a cell holds 0 only
\* where the Cq cell it is fed from reads '0'.
C12_AbsentNeverZero ==
    wpc = "returned"
    => \A slot \in CqSlots :
          /\ AbsentAt(slot)
                => ws[<<slot.row, slot.col>>] = template[<<slot.row, slot.col>>]
          /\ ws[<<slot.row, slot.col>>] = Value(Float(0, 0))
                => ~AbsentAt(slot) /\ slot.cells[slot.idx] = <<"0">>

\* The sample's rows for target 1 read '20.1', '' and '0', and the template
\* has a text in every cell: the first and the third cell of column C have
\* taken the numbers, the second has kept the text.
C12_Witness ==
    /\ wpc = "returned"
    /\ wcall.fn = "populate_stepone_data_win32"
    /\ wcall.raw[1].target1_m = << <<"2","0",".","1">>, <<>>, <<"0">> >>
    /\ template[<<7, 3>>] = Value(Str(<<"t">>))
    /\ ws[<<6, 3>>] = Value(Float(201, -1))
    /\ ws[<<7, 3>>] = Value(Str(<<"t">>))
    /\ ws[<<8, 3>>] = Value(Float(0, 0))

-----------------------------------------------------------------------------
(* The aggregator: further properties of SpecAgg *)

\* How many rows of data have that sample and that target.
Matching(data, name, target) ==
    Cardinality({ i \in DOMAIN data :
                    SampleOf(data[i]) = name /\ TargetOf(data[i]) = target })

\* C13: each of the four sequences is as long as there are rows of its file
\* with that sample and that target: a row with an absent measurement
\* counts, and a fourth row is not cut off.
C13_OneEntryPerRow ==
    ExtractReturned
    => /\ agg_out.exc = "none"
       /\ Len(agg_out.value.icr1_m) = Matching(icr1_data, call.args[1], ICR1_M)
       /\ Len(agg_out.value.icr1_um) = Matching(icr1_data, call.args[1], ICR1_UM)
       /\ Len(agg_out.value.icr2_m) = Matching(icr2_data, call.args[1], ICR2_M)
       /\ Len(agg_out.value.icr2_um) = Matching(icr2_data, call.args[1], ICR2_UM)

\* Four rows of sample 'X' and target ICR1_M, the second with an empty Cq
\* cell: the sequence has four entries, the second of them None.
C13_Witness ==
    /\ ExtractReturned
    /\ call.args[1] = SampleX
    /\ Matching(icr1_data, SampleX, ICR1_M) = 4
    /\ DictGet(icr1_data[2], K_Cq) = Str(<<>>)
    /\ agg_out.exc = "none"
    /\ Len(agg_out.value.icr1_m) = 4
    /\ agg_out.value.icr1_m[2] = None
    /\ agg_out.value.icr1_m[1] # None

\* The rows of data whose target is one of the two of its file.
OwnTargets(data, m_target, um_target) ==
    SelectSeq(data, LAMBDA row : TargetOf(row) \in {m_target, um_target})

\* C14: the rows of the first file feed the two sequences of target 1 only
\* and those of the second file the two of target 2 only: without the rows
\* that carry a target of the other file the result is the same, and no
\* pair of sequences has more entries than its file has rows of its targets.
C14_FilesKeptApart ==
    ExtractReturned
    => /\ agg_out.exc = "none"
       /\ agg_out = extract_sample_data(OwnTargets(icr1_data, ICR1_M, ICR1_UM),
                                        OwnTargets(icr2_data, ICR2_M, ICR2_UM),
                                        call.args[1])
       /\ Len(agg_out.value.icr1_m) + Len(agg_out.value.icr1_um)
            <= Len(OwnTargets(icr1_data, ICR1_M, ICR1_UM))
       /\ Len(agg_out.value.icr2_m) + Len(agg_out.value.icr2_um)
            <= Len(OwnTargets(icr2_data, ICR2_M, ICR2_UM))

\* The first file holds a row of 'X' with target ICR2_M and the second a
\* row of 'X' with target ICR1_M, and no others of 'X': the four sequences
\* are empty.
C14_Witness ==
    /\ ExtractReturned
    /\ call.args[1] = SampleX
    /\ \E i \in DOMAIN icr1_data :
          SampleOf(icr1_data[i]) = SampleX /\ TargetOf(icr1_data[i]) = ICR2_M
    /\ \E i \in DOMAIN icr2_data :
          SampleOf(icr2_data[i]) = SampleX /\ TargetOf(icr2_data[i]) = ICR1_M
    /\ agg_out.exc = "none"
    /\ agg_out.value.icr1_m = <<>>
    /\ agg_out.value.icr2_m = <<>>

-----------------------------------------------------------------------------
(* The aggregator called repeatedly: properties of SpecHold *)

-----------------------------------------------------------------------------
(* Claims about the plate information, checked under SpecPlate *)

PlateInfoReturned ==
    /\ rpc = "returned"
    /\ rcall.fn = "extract_plate_info"

\* n digits stand in s from position from on.
DigitsAt(s, from, n) ==
    /\ from + n - 1 <= Len(s)
    /\ \A k \in from..(from + n - 1) : IsDigit(s[k])

\* c stands in s at position k.
CharAt(s, k, c) == k <= Len(s) /\ s[k] = c

\* At p stands the key word and a plate number of at least three digits.
PlateShape(s, p) ==
    /\ LitAt(s, p, METHYLATION_)
    /\ DigitsAt(s, p + Len(METHYLATION_), 3)

\* At p stands the key word, a plate number of n digits, "_" and a date of
\* six digits.
DateShape(s, p, n) ==
    /\ LitAt(s, p, METHYLATION_)
    /\ DigitsAt(s, p + Len(METHYLATION_), n)
    /\ CharAt(s, p + Len(METHYLATION_) + n, "_")
    /\ DigitsAt(s, p + Len(METHYLATION_) + n + 1, 6)

\* ... and after the date "_" and an upper case letter.
InitialsShape(s, p, n) ==
    /\ DateShape(s, p, n)
    /\ CharAt(s, p + Len(METHYLATION_) + n + 7, "_")
    /\ p + Len(METHYLATION_) + n + 8 <= Len(s)
    /\ s[p + Len(METHYLATION_) + n + 8] \in Range(UpperLetters)

PlateLengths == {3, 4}

\* The least position of a set of positions.
Leftmost(ps) == CHOOSE p \in ps : \A q \in ps : p <= q

\* The plate number the file name shows: three digits, or four where a
\* fourth follows.
PlateOf(s) ==
    LET p == Leftmost({q \in 1..Len(s) : PlateShape(s, q)})
        from == p + Len(METHYLATION_)
    IN  SubSeq(s, from, IF DigitsAt(s, from, 4) THEN from + 3 ELSE from + 2)

\* The date the file name shows.
DateOf(s) ==
    LET p == Leftmost({q \in 1..Len(s) : \E n \in PlateLengths : DateShape(s, q, n)})
        n == CHOOSE n \in PlateLengths : DateShape(s, p, n)
        from == p + Len(METHYLATION_) + n + 1
    IN  SubSeq(s, from, from + 5)

\* The initials the file name shows: the upper case letters up to the first
\* character that is none.
InitialsOf(s) ==
    LET p == Leftmost({q \in 1..Len(s) : \E n \in PlateLengths : InitialsShape(s, q, n)})
        n == CHOOSE n \in PlateLengths : InitialsShape(s, p, n)
        from == p + Len(METHYLATION_) + n + 8
        to == CHOOSE j \in from..Len(s) :
                 /\ \A k \in from..j : s[k] \in Range(UpperLetters)
                 /\ j = Len(s) \/ s[j + 1] \notin Range(UpperLetters)
    IN  SubSeq(s, from, to)

\* C17: extract_plate_info raises for no file name; it returns the plate
\* number, the date and the initials that the file name shows after
\* "METHYLATION_", and the placeholder 'XXXX', 'MMDDYY' or 'XX' for each of
\* the three that the file name does not show.
C17_PlateInfoNeverRaises ==
    PlateInfoReturned
    => LET s == rcall.args[1]
       IN  /\ report_out.exc = "none"
           /\ Len(report_out.value) = 3
           /\ report_out.value[1] =
                 IF \E p \in 1..Len(s) : PlateShape(s, p)
                 THEN Str(PlateOf(s)) ELSE NoPlate
           /\ report_out.value[2] =
                 IF \E p \in 1..Len(s), n \in PlateLengths : DateShape(s, p, n)
                 THEN Str(DateOf(s)) ELSE NoDate
           /\ report_out.value[3] =
                 IF \E p \in 1..Len(s), n \in PlateLengths : InitialsShape(s, p, n)
                 THEN Str(InitialsOf(s)) ELSE NoInitials

\* A file name that shows the plate number but neither date nor initials
\* has returned the plate number and two placeholders.
C17_Witness ==
    /\ PlateInfoReturned
    /\ report_out = Returned(<<Str(<<"5","6","2">>), NoDate, NoInitials>>)

-----------------------------------------------------------------------------
(* Claims about the report, checked under SpecReport *)

GenerateReturned ==
    /\ rpc = "returned"
    /\ rcall.fn = "generate_report_win32"

MainReturned ==
    /\ rpc = "returned"
    /\ rcall.fn = "main"

\* No line of the file starts with the header signature.
LacksHeader(file) ==
    \A i \in DOMAIN file.lines : ~StartsWith(file.lines[i], HeaderSignature)

\* One export of the pair of the call lacks the header line.
PairLacksHeader ==
    LacksHeader(rcall.args.target1_file) \/ LacksHeader(rcall.args.target2_file)

\* C16: where one export of the pair has no header line,
\* generate_report_win32 raises and has made no file, neither the temp file
\* nor the output file, and main exits with status 1 in the parsing step,
\* having made no file and called generate_report_win32 for no sample.
C16_NoPartialReport ==
    /\ GenerateReturned /\ PairLacksHeader
       => /\ report_out.exc = "ValueError"
          /\ disk = <<>>
    /\ MainReturned /\ PairLacksHeader
       => /\ report_out.exit = "exit(1)"
          /\ report_out.step = "parsing"
          /\ report_out.reports = <<>>
          /\ disk = <<>>

\* generate_report_win32 has raised for a pair whose second export lacks the
\* header line, the template being there and Excel in working order.
C16_Witness ==
    /\ GenerateReturned
    /\ ~LacksHeader(rcall.args.target1_file)
    /\ LacksHeader(rcall.args.target2_file)
    /\ rcall.args.template_file.exists
    /\ rcall.args.excel = "ok"
    /\ report_out.exc = "ValueError"
    /\ disk = <<>>

-----------------------------------------------------------------------------
(* The parser further: properties of SpecParse *)

\* The str has no quote character at either end.
Unquoted(x) ==
    /\ x.kind = "str"
    /\ x.chars # <<>> => x.chars[1] # "\"" /\ x.chars[Len(x.chars)] # "\""

\* C18: in every row parse_qpcr_csv returns, every key and every value is a
\* str with no double-quote character at either end, and the keys are the
\* column names of the header without their quotes.
C18_NoQuoteLeft ==
    (ppc = "returned" /\ parse_out.exc = "none")
    => \A r \in DOMAIN parse_out.value :
          /\ \A i \in DOMAIN parse_out.value[r] :
                /\ Unquoted(parse_out.value[r][i].key)
                /\ Unquoted(parse_out.value[r][i].val)
          /\ DictKeys(parse_out.value[r]) =
                {Str(<<"W","e","l","l">>),
                 Str(<<"W","e","l","l"," ","P","o","s","i","t","i","o","n">>),
                 K_Cq}

\* A file whose header and whose data line have quote characters inside the
\* last field has been parsed: the key is 'Cq' and the value '7'.
C18_Witness ==
    /\ ppc = "returned"
    /\ \E i \in DOMAIN lines : lines[i] = QuoteHeaderLine
    /\ lines[Len(lines)] = QuoteLine
    /\ parse_out.exc = "none"
    /\ parse_out.value # <<>>
    /\ DictGet(parse_out.value[Len(parse_out.value)], K_Cq) = Str(<<"7">>)

-----------------------------------------------------------------------------
(* The parser called repeatedly: properties of SpecKeep *)

\* The objects of all results the caller holds.
KeptRefs == UNION { Range(kept[k].refs) : k \in DOMAIN kept }

-----------------------------------------------------------------------------
(* generate_report_win32's calls of the aggregator: properties of          *)
(* SpecReport                                                              *)

\* Both exports of the call have a header line and the template is there.
WellFormedPair ==
    /\ GenerateReturned
    /\ ~LacksHeader(rcall.args.target1_file)
    /\ ~LacksHeader(rcall.args.target2_file)
    /\ rcall.args.template_file.exists

\* C21: for any pair of well-formed exports (and a template that is
\* there) the calls of extract_sample_data are accepted, so that
\* generate_report_win32 does not end with the TypeError of a rejected call
\* and reaches the template-copy step: its first file operation is the copy
\* of the template to the temp file.
C21_ReachesTemplateCopy ==
    WellFormedPair =>
        /\ report_out.exc # "TypeError"
        /\ disk # <<>>
        /\ disk[1].op = "copy2"

-----------------------------------------------------------------------------
(* The worksheet writer: further properties of SpecWrite *)

\* The row blocks of the three steps, in columns A, C, H and J.
BlockOf(fn) ==
    CASE fn = "populate_stepone_data_win32" ->
           ((6..8) \cup (24..26)) \X {1, 3, 8, 10}
      [] fn = "populate_hct116_controls_win32" ->
           ((9..11) \cup (27..29)) \X {1, 3, 8, 10}
      [] fn = "populate_controls_win32" ->
           ((12..20) \cup (30..38)) \X {1, 3, 8, 10}
      [] OTHER -> {}

ProjectionSteps ==
    { "populate_stepone_data_win32", "populate_hct116_controls_win32",
      "populate_controls_win32" }

\* The cells the call has left other than the template has them.  What a
\* step writes (a name, a formula, a number) is neither the template's text
\* nor a blank cell, so that these are the cells the step has written.
ChangedCells == { c \in SheetCells : ws[c] # template[c] }

\* C22: a projection step writes to columns A, C, H and J of its own row
\* block only: columns B and I and every cell outside the block are as the
\* template has them, and no cell it has written lies in the block of
\* another step.
C22_WritesOwnBlockOnly ==
    wpc = "returned"
    => /\ ChangedCells \subseteq BlockOf(wcall.fn)
       /\ \A c \in SheetCells : c[2] \in {2, 9} => ws[c] = template[c]
       /\ \A fn \in ProjectionSteps \ {wcall.fn} :
             ChangedCells \cap BlockOf(fn) = {}

\* The controls have been written over a template with a text in every
\* cell: their names stand in rows 12 and 38, and rows 11, 21 and 39 and
\* column B are as they were.
C22_Witness ==
    /\ wpc = "returned"
    /\ wcall.fn = "populate_controls_win32"
    /\ template[<<12, 1>>] = Value(Str(<<"t">>))
    /\ ws[<<12, 1>>] = Value(Str(ControlNames1[1]))
    /\ ws[<<38, 8>>] = Value(Str(ControlNames2[3]))
    /\ ws[<<11, 1>>] = Value(Str(<<"t">>))
    /\ ws[<<21, 1>>] = Value(Str(<<"t">>))
    /\ ws[<<39, 8>>] = Value(Str(<<"t">>))
    /\ ws[<<12, 2>>] = Value(Str(<<"t">>))
    /\ ChangedCells # {}

\* What the slot's cell is to hold: the number of the Cq cell it is fed
\* from, or what the template has there where there is none.
Expected(slot) ==
    IF slot.idx <= Len(slot.cells) /\ Normalized(slot.cells)[slot.idx] # None
    THEN Value(Normalized(slot.cells)[slot.idx])
    ELSE template[<<slot.row, slot.col>>]

\* C23: of a sequence of n measurements the first min(n, 3) are written,
\* replicate i to row start + i: the cells of the replicates that are not
\* there are as the template has them, no exception is raised whatever n
\* is, and a fourth replicate is written nowhere (the cells of columns C
\* and J other than the slots of the call are as the template has them).
C23_FirstThreeReplicates ==
    wpc = "returned"
    => /\ write_out.exc = "none"
       /\ \A slot \in CqSlots : ws[<<slot.row, slot.col>>] = Expected(slot)
       /\ \A c \in SheetCells :
             /\ c[2] \in {3, 10}
             /\ \A slot \in CqSlots : c # <<slot.row, slot.col>>
             => ws[c] = template[c]

\* HCT116 has four replicates for target 1, the fourth with a Cq value:
\* rows 9 to 11 of column C hold the first three, and row 12 is as the
\* template has it; for target 2 it has three, and row 29 holds the third.
C23_Witness ==
    /\ wpc = "returned"
    /\ wcall.fn = "populate_hct116_controls_win32"
    /\ Len(wcall.raw[1].target1_m) = 4
    /\ Len(wcall.raw[1].target2_m) = 3
    /\ wcall.raw[1].target1_m[4] # <<>>
    /\ template[<<12, 3>>] = Value(Str(<<"t">>))
    /\ ws[<<9, 3>>] = Value(Normalized(wcall.raw[1].target1_m)[1])
    /\ ws[<<9, 3>>] # template[<<9, 3>>]
    /\ ws[<<11, 3>>] = Value(Normalized(wcall.raw[1].target1_m)[3])
    /\ ws[<<11, 3>>] # template[<<11, 3>>]
    /\ ws[<<12, 3>>] = Value(Str(<<"t">>))

-----------------------------------------------------------------------------
(* main's loop over the selected samples: properties of SpecReport *)

\* main has come to the loop over the selected samples.
LoopDone ==
    /\ MainReturned
    /\ report_out.step = "reports"

\* The test samples of the two files as main sorted them.
TestSamplesOfRun ==
    Offered(rcall.args.target1_file, rcall.args.target2_file)

\* C28: in batch mode main calls generate_report_win32 once for every test
\* sample, in the order of the list, and returns after the last: a call
\* that raises does not keep the samples after it from their calls.
C28_EverySampleAttempted ==
    LoopDone /\ rcall.args.mode_choice = "A"
    => /\ report_out.exit = "return"
       /\ Len(report_out.reports) = Len(TestSamplesOfRun)
       /\ \A i \in DOMAIN report_out.reports :
             report_out.reports[i].sample_name = TestSamplesOfRun[i]

\* Batch mode with three test samples: the call for the first has raised,
\* and the second and the third have had their calls.
C28_Witness ==
    /\ LoopDone
    /\ rcall.args.mode_choice = "A"
    /\ Len(TestSamplesOfRun) = 3
    /\ Len(report_out.reports) = 3
    /\ report_out.reports[1].out.exc # "none"
    /\ report_out.reports[1].sample_name = SampleX
    /\ report_out.reports[3].sample_name = Str(<<"Y","_","1">>)

\* C30: two different samples of one run never have the same output file.
C30_DistinctOutputFiles ==
    LoopDone
    => \A i, j \in DOMAIN report_out.reports :
          report_out.reports[i].sample_name # report_out.reports[j].sample_name
          => report_out.reports[i].output_file # report_out.reports[j].output_file

-----------------------------------------------------------------------------
(* main's file identification: properties of SpecReport *)

\* The names of the two files in the order they were selected in.
SelectedNames ==
    <<rcall.args.target1_file.name, rcall.args.target2_file.name>>

\* The one selected file whose name, in upper case, contains target:
\* its place in the selection, 0 where none or both do.
OnlyOneWith(target) ==
    IF Contains(Upper(SelectedNames[1]), target)
       /\ ~Contains(Upper(SelectedNames[2]), target) THEN 1
    ELSE IF Contains(Upper(SelectedNames[2]), target)
            /\ ~Contains(Upper(SelectedNames[1]), target) THEN 2
    ELSE 0

\* The target names of the assay main has detected.
AssayOfRun == detect_assay_type(SelectedNames[1])

\* C29: where exactly one of the two selected files has the name of target
\* 1 in its name, that file is the one main parses as the export of target
\* 1, and likewise for target 2, in whichever order the files were
\* selected.
C29_FilesIdentified ==
    MainReturned
    => /\ OnlyOneWith(AssayOfRun.target1_name) # 0
          => report_out.target1_file_sorted
               = SelectedNames[OnlyOneWith(AssayOfRun.target1_name)]
       /\ OnlyOneWith(AssayOfRun.target2_name) # 0
          => report_out.target2_file_sorted
               = SelectedNames[OnlyOneWith(AssayOfRun.target2_name)]

-----------------------------------------------------------------------------
(* The selection of the controls: properties of SpecControls *)

ControlsReturned ==
    /\ rpc = "returned"
    /\ rcall.fn = "get_control_selection"

\* The letters of the assay's controls: A to F for BWS, A to H for RSS.
LettersOf(assay_type) ==
    IF assay_type = "RSS" THEN {"A", "B", "C", "D", "E", "F", "G", "H"}
    ELSE {"A", "B", "C", "D", "E", "F"}

\* The line is, but for its case and the white space around it, a letter
\* of the assay.
ValidLine(line) ==
    \E X \in LettersOf(rcall.args.assay_type) :
        Upper(Strip(line, Whitespace)) = <<X>>

\* The valid ones of the lines typed, in the order they were typed in.
ValidTyped == SelectSeq(rcall.args.typed, ValidLine)

\* The slot after a slot: the three of target 1, then the three of target 2.
NextSlot(slot) ==
    IF slot[2] < 3 THEN <<slot[1], slot[2] + 1>> ELSE <<slot[1] + 1, 1>>

\* C27: get_control_selection returns if and only if six valid lines have
\* been typed; what it returns is three names for target 1 and three for
\* target 2, the six first valid lines in the order typed, each as
\* 'Control X' with X a letter of the assay; every line typed is answered
\* by the prompt of the same slot where it is invalid and by that of the
\* next slot where it is valid.
C27_ThreeValidControlsEach ==
    ControlsReturned
    => /\ report_out.exc = "none" <=> Len(ValidTyped) >= 6
       /\ report_out.exc = "none"
          => /\ Len(report_out.value[1]) = 3
             /\ Len(report_out.value[2]) = 3
             /\ \A k \in 1..6 :
                   /\ (report_out.value[1] \o report_out.value[2])[k]
                        = Str(<<"C","o","n","t","r","o","l"," ">>
                              \o Upper(Strip(ValidTyped[k], Whitespace)))
                   /\ \E X \in LettersOf(rcall.args.assay_type) :
                         (report_out.value[1] \o report_out.value[2])[k]
                           = Str(<<"C","o","n","t","r","o","l"," ", X>>)
       /\ report_out.prompts[1] = <<1, 1>>
       /\ \A k \in 1..(Len(report_out.prompts) - 1) :
             report_out.prompts[k + 1]
               = IF ValidLine(rcall.args.typed[k])
                 THEN NextSlot(report_out.prompts[k])
                 ELSE report_out.prompts[k]

\* For RSS the user has typed ' a', 'x', 'g ' and then lines of which
\* four are valid: 'x' was asked again for, and the controls of target 1
\* start with A and G.
C27_Witness ==
    /\ ControlsReturned
    /\ rcall.args.assay_type = "RSS"
    /\ Len(rcall.args.typed) >= 7
    /\ SubSeq(rcall.args.typed, 1, 3) = << <<" ", "a">>, <<"x">>, <<"g", " ">> >>
    /\ report_out.exc = "none"
    /\ report_out.value[1][1] = Str(<<"C","o","n","t","r","o","l"," ","A">>)
    /\ report_out.value[1][2] = Str(<<"C","o","n","t","r","o","l"," ","G">>)
    /\ Len(report_out.value[2]) = 3
    /\ SubSeq(report_out.prompts, 1, 4) = << <<1, 1>>, <<1, 2>>, <<1, 2>>, <<1, 3>> >>

-----------------------------------------------------------------------------
(* The workbook steps of generate_report_win32: properties of SpecSteps *)

\* The call has copied the template to the temp file.
Copied ==
    /\ disk # <<>>
    /\ disk[1].op = "copy2"

\* The places in disk of the operation op on what.
PlacesOf(op, what) ==
    { i \in DOMAIN disk : disk[i].op = op /\ disk[i].file = what }

\* The last three operations are the closing of the workbook, the quitting
\* of Excel and the removal of the temp file, and nothing was saved after
\* the closing.
CleanedUp ==
    /\ Len(disk) >= 4
    /\ disk[Len(disk) - 2] = ComCall("Close")
    /\ disk[Len(disk) - 1] = ComCall("Quit")
    /\ disk[Len(disk)].op = "unlink"

WarningOnly ==
    rcall.args.excel \in {FinalSheet, Macro1, Macro2, Sheet1}

CallsAmong(names) ==
    SelectSeq(disk, LAMBDA e : e.op = "call" /\ e.file \in names)

=============================================================================
